---- MODULE Spec2Model ----
(***************************************************************************)
(* getwebsite: the interactive controller (package ui, Model.Update), the  *)
(* layout it drives (package renderer, RenderArticle) and the pipe path of *)
(* main.                                                                   *)
(*                                                                         *)
(* A Go string is modelled as the sequence of its characters, each a       *)
(* one-character TLA+ string; a rendered text is the sequence of its       *)
(* lines, i.e. strings.Split(text, "\n").  Colour escape sequences and the *)
(* right padding that lipgloss adds to a styled line are not part of the   *)
(* lines modelled here; its word wrap is greedy wrapping on single spaces. *)
(* Characters outside ASCII are written as ASCII stand-ins: box corners    *)
(* "+", box sides "|", rules "-", the middle dot "*", the heading arrows   *)
(* ">", the escape character "^".                                          *)
(***************************************************************************)
EXTENDS Integers, Sequences, FiniteSets, TLC

VARIABLES
    m,          \* the ui.Model value held by the Bubble Tea program
    fetch,      \* the background fetchArticle command: "pending" | "delivered"
    quit,       \* Update has returned tea.Quit
    launched,   \* URLs handed to openBrowser by the most recent Update
    ev,         \* the message the most recent Update was called with, and
                \* the mode it found the Model in
    main,       \* main(): the mode, the --width flag, the renderer it built
    lay,        \* package renderer called on its own: a Renderer, the
                \* Article given to it and the calls of RenderArticle made
    ext         \* package parser called on its own: the input of Parse,
                \* the parseContext and the position of the traversal

vars == <<m, fetch, quit, launched, ev, main, lay, ext>>

-----------------------------------------------------------------------------
(* Bounds and inputs *)

\* longest text typed into a prompt
MaxInput == 1

\* terminal sizes reported by tea.WindowSizeMsg
TermWidths == {12, 120}
TermHeights == {24}

\* values given to --width
FlagWidths == {40, 90, 120}

\* rune keys typed into the search prompt and into the link prompt
SearchRunes == {"q", "z"}
LinkRunes == {"1", "2", "q"}
Runes == SearchRunes \cup LinkRunes

\* other keys pressed while a prompt is open
PromptKeys == {"enter", "esc", "ctrl+c"}

\* keys pressed in normal mode
NormalKeys == {"q", "ctrl+c", "esc", "g", "G", "/", "n", "N", "]", "[", "o",
               "j", "k"}

-----------------------------------------------------------------------------
(* Strings *)

Min(a, b) == IF a < b THEN a ELSE b
Max(a, b) == IF a > b THEN a ELSE b

\* strings.Repeat(c, n)
Repeat(c, n) == [i \in 1..n |-> c]

\* strings.ToLower on one character
LowerChar(c) ==
    CASE c = "A" -> "a"
      [] c = "B" -> "b"
      [] c = "L" -> "l"
      [] c = "Q" -> "q"
      [] c = "T" -> "t"
      [] OTHER -> c

\* strings.ToLower
ToLower(s) == [i \in 1..Len(s) |-> LowerChar(s[i])]

\* strings.Contains(s, sub)
Contains(s, sub) ==
    \E i \in 0..(Len(s) - Len(sub)) :
        \A j \in 1..Len(sub) : s[i + j] = sub[j]

Digits == <<"0", "1", "2", "3", "4", "5", "6", "7", "8", "9">>

IsDigit(c) == \E d \in 1..10 : Digits[d] = c

DigitVal(c) == (CHOOSE d \in 1..10 : Digits[d] = c) - 1

RECURSIVE Itoa(_)
\* fmt.Sprintf("%d", n) for n >= 0
Itoa(n) == IF n < 10 THEN <<Digits[n + 1]>>
           ELSE Itoa(n \div 10) \o <<Digits[(n % 10) + 1]>>

RECURSIVE DecVal(_)
DecVal(s) == IF s = <<>> THEN 0
             ELSE 10 * DecVal(SubSeq(s, 1, Len(s) - 1)) + DigitVal(s[Len(s)])

\* strconv.Atoi: an optional sign followed by one or more decimal digits
Atoi(s) ==
    LET signed == s # <<>> /\ s[1] \in {"+", "-"}
        body   == IF signed THEN Tail(s) ELSE s
    IN  IF body # <<>> /\ \A i \in 1..Len(body) : IsDigit(body[i])
        THEN [err |-> FALSE,
              num |-> IF signed /\ s[1] = "-" THEN 0 - DecVal(body)
                      ELSE DecVal(body)]
        ELSE [err |-> TRUE, num |-> 0]

RECURSIVE FieldsFrom(_, _, _)
FieldsFrom(s, cur, acc) ==
    IF s = <<>> THEN (IF cur = <<>> THEN acc ELSE Append(acc, cur))
    ELSE IF Head(s) = " "
         THEN FieldsFrom(Tail(s), <<>>, IF cur = <<>> THEN acc ELSE Append(acc, cur))
         ELSE FieldsFrom(Tail(s), Append(cur, Head(s)), acc)

\* strings.Fields
Fields(s) == FieldsFrom(s, <<>>, <<>>)

RECURSIVE WrapWords(_, _, _, _)
WrapWords(words, limit, cur, acc) ==
    IF words = <<>> THEN Append(acc, cur)
    ELSE LET w == Head(words) IN
         IF cur = <<>> THEN WrapWords(Tail(words), limit, w, acc)
         ELSE IF Len(cur) + 1 + Len(w) <= limit
              THEN WrapWords(Tail(words), limit, cur \o <<" ">> \o w, acc)
              ELSE WrapWords(Tail(words), limit, w, Append(acc, cur))

\* lipgloss Style.Width(w).Render(text): the lines text is wrapped into
\* (no wrapping when w <= 0)
Wrap(text, w) ==
    IF w <= 0 THEN <<text>> ELSE WrapWords(Fields(text), w, <<>>, <<>>)

RECURSIVE Flatten(_)
Flatten(ss) == IF ss = <<>> THEN <<>> ELSE Head(ss) \o Flatten(Tail(ss))

-----------------------------------------------------------------------------
(* package parser: the Article handed over by fetchArticle *)

BlockHeading == "BlockHeading"
BlockParagraph == "BlockParagraph"
BlockImage == "BlockImage"

\* an Article as parser.Parse returns it for <h1>A</h1> <p>b <a>b</a></p>
\* <h2>Q</h2> <p>q q q q q q</p>: four blocks and one Link
Article1 ==
    [Title    |-> <<"T">>,
     Author   |-> <<>>,
     SiteName |-> <<>>,
     Content  |-> <<
        [Type |-> BlockHeading, Level |-> 1, Text |-> <<"A">>],
        [Type |-> BlockParagraph, Level |-> 0,
         Text |-> <<"b", " ", "b", " ", "[", "1", "]">>],
        [Type |-> BlockHeading, Level |-> 2, Text |-> <<"Q">>],
        [Type |-> BlockParagraph, Level |-> 0,
         Text |-> <<"q", " ", "q", " ", "q", " ", "q", " ", "q", " ", "q">>] >>,
     Links    |-> << [Index |-> 1, Text |-> <<"b">>, URL |-> <<"u">>] >>]

\* an Article without headings and without links
Article2 ==
    [Title    |-> <<"T">>,
     Author   |-> <<"B">>,
     SiteName |-> <<>>,
     Content  |-> <<
        [Type |-> BlockParagraph, Level |-> 0, Text |-> <<"q", " ", "2">>] >>,
     Links    |-> << >>]

Articles == {Article1, Article2}

\* the nil *parser.Article
Nil == [nil |-> TRUE]

-----------------------------------------------------------------------------
(* package renderer *)

RECURSIVE CountWordsFrom(_)
CountWordsFrom(blocks) ==
    IF blocks = <<>> THEN 0
    ELSE (IF Head(blocks).Type \in {BlockParagraph, BlockHeading}
          THEN Len(Fields(Head(blocks).Text)) ELSE 0)
         + CountWordsFrom(Tail(blocks))

countWords(article) == CountWordsFrom(article.Content)

\* the lines of the bordered title box
renderTitle(article, width) ==
    LET contentWidth == width - 4
        title == Wrap(article.Title, contentWidth)
        parts == (IF article.Author # <<>>
                  THEN << <<"b", "y", " ">> \o article.Author >> ELSE <<>>)
                 \o (IF article.SiteName # <<>> THEN <<article.SiteName>> ELSE <<>>)
        joined == IF Len(parts) = 2
                  THEN parts[1] \o <<" ", "*", " ">> \o parts[2]
                  ELSE Flatten(parts)
        meta == IF Len(parts) > 0 THEN Wrap(joined, contentWidth) ELSE <<>>
        words == countWords(article)
        readMins == Max((words + 237) \div 238, 1)
        readLine == Wrap(Itoa(readMins)
                         \o <<" ", "m", "i", "n", " ", "r", "e", "a", "d", " ", "*", " ">>
                         \o Itoa(words)
                         \o <<" ", "w", "o", "r", "d", "s">>, contentWidth)
        content == title \o meta \o readLine
        inner == [i \in 1..Len(content) |-> <<"|", " ", " ">> \o content[i] \o <<"|">>]
    IN  << <<"+">> \o Repeat("-", width) \o <<"+">>, <<"|", "|">> >>
        \o inner
        \o << <<"|", "|">>, <<"+">> \o Repeat("-", width) \o <<"+">> >>

\* the lines of "\n" + prefix + text + "\n"
renderHeading(block) ==
    LET prefix == CASE block.Level \in {1, 2} -> <<">", " ">>
                    [] block.Level = 3 -> <<" ", " ", ">", " ">>
                    [] OTHER -> <<" ", " ", " ", " ", ">", " ">>
    IN  << <<>>, prefix \o block.Text >>

\* the lines of the paragraph wrapped at width-2 with one column of padding
renderParagraph(block, width) ==
    LET ls == Wrap(block.Text, width - 2 - 1)
    IN  [i \in 1..Len(ls) |-> <<" ">> \o ls[i]]

\* Renderer.renderHR: the rule line "  " + strings.Repeat(rule, width-4)
renderHR(width) == << <<" ", " ">> \o Repeat("=", width - 4) >>

RenderBlock(block, width) ==
    CASE block.Type = BlockHeading -> renderHeading(block)
      [] block.Type = BlockParagraph -> renderParagraph(block, width)
      [] block.Type = "BlockHR" -> renderHR(width)
      [] OTHER -> <<>>

\* the divider line written before headings and sections
Divider(width) == <<" ", " ">> \o Repeat("-", width - 4)

Esc == "^"

RECURSIVE LinkLines(_)
LinkLines(links) ==
    IF links = <<>> THEN <<>>
    ELSE LET link == Head(links)
             osc == <<Esc, "]", "8", ";", ";">>
             st  == <<Esc, "\\">>
         IN  << <<" ", " ", "[">> \o Itoa(link.Index) \o <<"]", " ">> \o link.Text,
                Repeat(" ", 6) \o osc \o link.URL \o st \o link.URL \o osc \o st >>
             \o LinkLines(Tail(links))

renderLinks(links, width) ==
    << <<>>, Divider(width), <<" ", " ", "L", "i", "n", "k", "s">>, <<>> >>
    \o LinkLines(links)

\* the line count taken from the buffer as it was before the divider
lineCount_BeforeDivider(b, b1) == Len(b)

\* lineCount := strings.Count(b.String(), "\n"), read after the divider was
\* written: b is the buffer before the divider, b1 the buffer read
lineCount(b, b1) == Len(b1)

\* an offset recorded for every block of the main stream
RecordHeading_EveryBlock(hl, block, n) == Append(hl, n)

\* r.HeadingLines = append(r.HeadingLines, lineCount) for a Heading block
RecordHeading(hl, block, n) ==
    IF block.Type = BlockHeading THEN Append(hl, n) ELSE hl

RECURSIVE RenderBlocks(_, _, _, _)
\* the loop over article.Content: b is the output so far (its complete
\* lines), hl the heading offsets recorded so far
RenderBlocks(article, i, width, acc) ==
    IF i > Len(article.Content) THEN acc
    ELSE LET block == article.Content[i] IN
         IF block.Type = BlockImage
         THEN RenderBlocks(article, i + 1, width, acc)
         ELSE LET b1 == IF block.Type = BlockHeading /\ i - 1 > 0
                        THEN Append(acc.b, Divider(width)) ELSE acc.b
                  hl == RecordHeading(acc.HeadingLines, block, lineCount(acc.b, b1))
                  rendered == RenderBlock(block, width)
                  b2 == IF rendered # <<>> THEN b1 \o rendered \o << <<>> >> ELSE b1
              IN  RenderBlocks(article, i + 1, width, [b |-> b2, HeadingLines |-> hl])

\* the environment variables supportsInlineImages reads
Environments ==
    {[TERM_PROGRAM |-> "iTerm.app", LC_TERMINAL |-> ""],
     [TERM_PROGRAM |-> "", LC_TERMINAL |-> "iTerm2"],
     [TERM_PROGRAM |-> "", LC_TERMINAL |-> ""]}

supportsInlineImages(env) ==
    \/ env.TERM_PROGRAM \in {"iTerm.app", "WezTerm", "mintty"}
    \/ env.LC_TERMINAL = "iTerm2"

\* renderer.New(width) in the environment env
NewRenderer(width, env) ==
    [width |-> width, inlineImages |-> supportsInlineImages(env),
     HeadingLines |-> <<>>]

\* what the two downloads of one image give: inline, whether
\* renderInlineImage returns an escape sequence; ascii, whether
\* renderASCIIImage returns a picture
ImageResults == [inline : BOOLEAN, ascii : BOOLEAN]

\* the line of the iTerm2 escape sequence of renderInlineImage
InlineImageLine == <<" ", " ", Esc, "]", "1", "3", "3", "7", ";">>

\* the rows renderASCIIImage returns
ASCIIImageLines == << <<"#", "#">> >>

\* the caption line written under a picture
Caption(block) ==
    IF block.Alt # <<>> THEN << <<" ", " ">> \o block.Alt >> ELSE <<>>

\* the placeholder line "  [IMAGE: alt]"
Placeholder(block) ==
    <<" ", " ", "[", "I", "M", "A", "G", "E", ":", " ">>
    \o (IF block.Alt = <<>> THEN <<"i", "m", "a", "g", "e">> ELSE block.Alt)
    \o <<"]">>

\* Renderer.renderImage: the lines written for one Image block when its
\* downloads give res
renderImage(r, block, res) ==
    IF block.URL # <<>> /\ r.inlineImages /\ res.inline
    THEN <<InlineImageLine>> \o Caption(block)
    ELSE IF block.URL # <<>> /\ res.ascii
    THEN ASCIIImageLines \o Caption(block)
    ELSE <<Placeholder(block)>>

\* the Image blocks the images section of RenderArticle renders
InImageSection(block) == block.Type = BlockImage /\ block.URL # <<>>

RECURSIVE ImageSection(_, _, _, _)
\* the loop over article.Content filling imageSection; img[i] is what the
\* downloads of block i give
ImageSection(r, article, img, i) ==
    IF i > Len(article.Content) THEN <<>>
    ELSE (IF InImageSection(article.Content[i])
          THEN renderImage(r, article.Content[i], img[i]) ELSE <<>>)
         \o ImageSection(r, article, img, i + 1)

\* r.HeadingLines = nil at the start of RenderArticle
ResetHeadingLines_Keep(r) == r.HeadingLines

\* r.HeadingLines = nil at the start of RenderArticle
ResetHeadingLines(r) == <<>>

\* Renderer.RenderArticle: the lines of the returned text (strings.Split on
\* "\n", so the text's final newline yields a last empty line) and the
\* HeadingLines it leaves in the Renderer
RenderArticle(r, article, img) ==
    LET start == [b |-> renderTitle(article, r.width) \o << <<>> >>,
                  HeadingLines |-> ResetHeadingLines(r)]
        body == RenderBlocks(article, 1, r.width, start)
        images == ImageSection(r, article, img, 1)
        withImages == IF images # <<>>
                      THEN body.b
                           \o << <<>>, Divider(r.width),
                                 <<" ", " ", "I", "m", "a", "g", "e", "s">>, <<>> >>
                           \o images
                      ELSE body.b
        withLinks == IF Len(article.Links) > 0
                     THEN withImages \o renderLinks(article.Links, r.width)
                     ELSE withImages
    IN  [content |-> withLinks \o << <<>> >>, HeadingLines |-> body.HeadingLines]

\* the downloads of an Article's images all failing
NoImages(article) ==
    [i \in 1..Len(article.Content) |-> [inline |-> FALSE, ascii |-> FALSE]]

\* r := renderer.New(width); r.RenderArticle(article), as renderContent and
\* main call it.  The Articles they are given here hold no Image block, so
\* neither the environment nor a download is consulted.
Layout(article, width) ==
    RenderArticle(NewRenderer(width, [TERM_PROGRAM |-> "", LC_TERMINAL |-> ""]),
                  article, NoImages(article))

\* strings.Repeat panics when its count is negative
RepeatPanics(count) == count < 0

\* the strings.Repeat calls RenderArticle reaches with the count width - 4:
\* the divider of a Heading after the first block, the rule of an HR block,
\* the divider of the images section, the divider of the links section
ReachesRepeat(article) ==
    \/ \E i \in 2..Len(article.Content) : article.Content[i].Type = BlockHeading
    \/ \E i \in 1..Len(article.Content) : article.Content[i].Type = "BlockHR"
    \/ \E i \in 1..Len(article.Content) : InImageSection(article.Content[i])
    \/ Len(article.Links) > 0

\* RenderArticle ends in a runtime panic
RenderArticlePanics(r, article) ==
    ReachesRepeat(article) /\ RepeatPanics(r.width - 4)

-----------------------------------------------------------------------------
(* Renderer.renderTable.  Strings are sequences of bytes, len is the       *)
(* number of bytes                                                         *)

BlockTable == "BlockTable"

\* the three bytes of the ellipsis character U+2026
Ellipsis == <<"E2", "80", "A6">>

\* the largest of the row lengths, 0 for no rows
NumCols(rows) ==
    IF rows = <<>> THEN 0
    ELSE LET lens == {Len(rows[i]) : i \in 1..Len(rows)}
         IN  CHOOSE n \in lens : \A k \in lens : k <= n

\* the widest cell of column j (1-based), 0 when no row has the column
NaturalWidth(rows, j) ==
    LET lens == {Len(rows[i][j]) : i \in {k \in 1..Len(rows) : j <= Len(rows[k])}}
                  \cup {0}
    IN  CHOOSE n \in lens : \A k \in lens : k <= n

RECURSIVE SumSeq(_)
SumSeq(ws) == IF ws = <<>> THEN 0 ELSE Head(ws) + SumSeq(Tail(ws))

\* maxTableWidth := r.width - 6
MaxTableWidth(width) == width - 6

\* totalWidth: the borders and every column with its padding
TotalWidth(colWidths) == Len(colWidths) + 1 + SumSeq(colWidths) + 2 * Len(colWidths)

\* colWidths[j] = colWidths[j] * available / total, at least 1
ShrinkColumn(w, available, total) ==
    LET v == (w * available) \div total
    IN  IF v < 1 THEN 1 ELSE v

\* the column widths renderTable ends up with
ColWidths(rows, width) ==
    LET numCols == NumCols(rows)
        natural == [j \in 1..numCols |-> NaturalWidth(rows, j)]
        maxTableWidth == MaxTableWidth(width)
    IN  IF TotalWidth(natural) > maxTableWidth
        THEN LET a == maxTableWidth - numCols - 1 - numCols * 2
                 available == IF a < numCols THEN numCols ELSE a
                 total == SumSeq(natural)
             IN  IF total > 0
                 THEN [j \in 1..numCols |-> ShrinkColumn(natural[j], available, total)]
                 ELSE natural
        ELSE natural

\* fmtCell, the truncation: text[:width-1] + "..." or text[:width]
Truncate(text, width) ==
    IF Len(text) > width
    THEN IF width > 1 THEN SubSeq(text, 1, width - 1) \o Ellipsis
         ELSE SubSeq(text, 1, width)
    ELSE text

\* fmtCell: the cell truncated and padded; strings.Repeat panics on a
\* negative count
fmtCell(text, width) ==
    LET t == Truncate(text, width)
        count == width - Len(t)
    IN  IF count < 0 THEN [panic |-> TRUE, text |-> t]
        ELSE [panic |-> FALSE, text |-> t \o Repeat(" ", count)]

\* the cells of one row as renderTable formats them
FormatRow(row, colWidths) ==
    [j \in 1..Len(colWidths) |->
        fmtCell(IF j <= Len(row) THEN row[j] ELSE <<>>, colWidths[j])]

\* Renderer.renderTable: whether it panics, the column widths, the cells
\* of every row it writes (none when it returns "")
renderTable(width, block) ==
    IF Len(block.Rows) = 0 \/ NumCols(block.Rows) = 0
    THEN [panic |-> FALSE, empty |-> TRUE, colWidths |-> <<>>, rows |-> <<>>]
    ELSE LET colWidths == ColWidths(block.Rows, width)
             cells == [i \in 1..Len(block.Rows) |-> FormatRow(block.Rows[i], colWidths)]
         IN  [panic |-> \E i \in 1..Len(cells) : \E j \in 1..Len(colWidths) :
                            cells[i][j].panic,
              empty |-> FALSE,
              colWidths |-> colWidths,
              rows |-> [i \in 1..Len(cells) |->
                          [j \in 1..Len(colWidths) |-> cells[i][j].text]]]

-----------------------------------------------------------------------------
(* bubbles/viewport as package ui uses it *)

\* the text "" as strings.Split gives it: one empty line
EmptyText == << <<>> >>

\* the zero viewport.Model
ZeroViewport == [Width |-> 0, Height |-> 0, YOffset |-> 0, lines |-> <<>>, hl |-> {}]

\* viewport.New(width, height)
NewViewport(width, height) == [ZeroViewport EXCEPT !.Width = width, !.Height = height]

maxYOffset(vp) == Max(0, Len(vp.lines) - vp.Height)

\* viewport.SetYOffset: the offset is clamped to 0..maxYOffset
SetYOffset(vp, n) == [vp EXCEPT !.YOffset = Max(0, Min(n, maxYOffset(vp)))]

GotoTop(vp) == IF vp.YOffset <= 0 THEN vp ELSE SetYOffset(vp, 0)

GotoBottom(vp) == SetYOffset(vp, maxYOffset(vp))

\* viewport.SetContent: lines are the text's lines, hl the indices of the
\* lines that carry searchHighlightStyle
SetContent(vp, lines, hl) ==
    LET v == [vp EXCEPT !.lines = lines, !.hl = hl]
    IN  IF v.YOffset > Len(lines) - 1 THEN GotoBottom(v) ELSE v

\* viewport.Update for a key message: "j" scrolls one line down, "k" one up
ViewportUpdateKey(vp, k) ==
    CASE k = "j" -> IF vp.YOffset >= maxYOffset(vp) \/ Len(vp.lines) = 0
                    THEN vp ELSE SetYOffset(vp, vp.YOffset + 1)
      [] k = "k" -> IF vp.YOffset <= 0 THEN vp ELSE SetYOffset(vp, vp.YOffset - 1)
      [] OTHER -> vp

-----------------------------------------------------------------------------
(* package ui *)

\* ui.New(url)
NewModel ==
    [article       |-> Nil,
     viewport      |-> ZeroViewport,
     ready         |-> FALSE,
     width         |-> 0,
     height        |-> 0,
     loading       |-> TRUE,
     searching     |-> FALSE,
     searchInput   |-> <<>>,
     searchQuery   |-> <<>>,
     searchMatches |-> <<>>,
     searchIdx     |-> 0,
     contentLines  |-> <<>>,
     headingLines  |-> <<>>,
     openingLink   |-> FALSE,
     linkInput     |-> <<>>,
     rawContent    |-> EmptyText]

\* fmt.Sprintf("Error: %v", msg.err)
ErrorText == << <<"E", "r", "r", "o", "r", ":", " ", "e">> >>

\* the width cap of the interactive layout
MaxRenderWidth == 90

\* renderContent building the Renderer at the terminal's width, uncapped
rendererWidth_NoCap(mm) == mm.width

\* the width renderContent hands to renderer.New
rendererWidth(mm) == Min(mm.width, MaxRenderWidth)

\* applyHighlights
applyHighlights(mm) ==
    IF Len(mm.searchMatches) = 0
    THEN [mm EXCEPT !.viewport = SetContent(mm.viewport, mm.rawContent, {})]
    ELSE [mm EXCEPT !.viewport =
            SetContent(mm.viewport, mm.contentLines,
                       {mm.searchMatches[j] : j \in 1..Len(mm.searchMatches)})]

RECURSIVE MatchLoop(_, _, _)
\* the loop of executeSearch over contentLines, i the 0-based line index
MatchLoop(lines, query, i) ==
    IF i >= Len(lines) THEN <<>>
    ELSE (IF Contains(ToLower(lines[i + 1]), query) THEN <<i>> ELSE <<>>)
         \o MatchLoop(lines, query, i + 1)

\* executeSearch
executeSearch(mm) ==
    IF mm.searchQuery = <<>> THEN [mm EXCEPT !.searchMatches = <<>>]
    ELSE applyHighlights(
            [mm EXCEPT !.searchMatches =
                MatchLoop(mm.contentLines, ToLower(mm.searchQuery), 0)])

\* renderContent that lays the article out again but keeps the match set of
\* the previous layout
renderContent_Stale(mm) ==
    LET r  == Layout(mm.article, rendererWidth(mm))
        m1 == [mm EXCEPT !.rawContent = r.content,
                         !.headingLines = r.HeadingLines,
                         !.contentLines = r.content]
    IN  IF m1.searchQuery # <<>>
        THEN applyHighlights(m1)
        ELSE [m1 EXCEPT !.viewport = SetContent(m1.viewport, r.content, {})]

\* renderContent
renderContent(mm) ==
    LET r  == Layout(mm.article, rendererWidth(mm))
        m1 == [mm EXCEPT !.rawContent = r.content,
                         !.headingLines = r.HeadingLines,
                         !.contentLines = r.content]
    IN  IF m1.searchQuery # <<>>
        THEN applyHighlights(executeSearch(m1))
        ELSE [m1 EXCEPT !.viewport = SetContent(m1.viewport, r.content, {})]

\* jumpToMatch
jumpToMatch(mm) ==
    IF mm.searchIdx < Len(mm.searchMatches)
    THEN [mm EXCEPT !.viewport =
            SetYOffset(mm.viewport, mm.searchMatches[mm.searchIdx + 1])]
    ELSE mm

\* jumpToNextHeading taking the first recorded offset at or above the
\* current one
jumpToNextHeading_AtOrAbove(mm) ==
    IF Len(mm.headingLines) = 0 THEN mm
    ELSE LET hs == mm.headingLines
             above == {j \in 1..Len(hs) : hs[j] >= mm.viewport.YOffset}
             line == IF above # {}
                     THEN hs[CHOOSE j \in above : \A k \in above : j <= k]
                     ELSE hs[1]
         IN  [mm EXCEPT !.viewport = SetYOffset(mm.viewport, line)]

\* jumpToNextHeading: the first recorded offset above the current one,
\* else the first heading
jumpToNextHeading(mm) ==
    IF Len(mm.headingLines) = 0 THEN mm
    ELSE LET hs == mm.headingLines
             above == {j \in 1..Len(hs) : hs[j] > mm.viewport.YOffset}
             line == IF above # {}
                     THEN hs[CHOOSE j \in above : \A k \in above : j <= k]
                     ELSE hs[1]
         IN  [mm EXCEPT !.viewport = SetYOffset(mm.viewport, line)]

\* jumpToPrevHeading: the last recorded offset below the current one, else
\* the last heading
jumpToPrevHeading(mm) ==
    IF Len(mm.headingLines) = 0 THEN mm
    ELSE LET hs == mm.headingLines
             below == {j \in 1..Len(hs) : hs[j] < mm.viewport.YOffset}
             line == IF below # {}
                     THEN hs[CHOOSE j \in below : \A k \in below : j >= k]
                     ELSE hs[Len(hs)]
         IN  [mm EXCEPT !.viewport = SetYOffset(mm.viewport, line)]

\* what one call of Update returns and does: the new Model, whether the
\* command is tea.Quit, the URLs given to openBrowser, the widths given to
\* renderer.New
Result(mm, q, urls, rs) == [m |-> mm, quit |-> q, launched |-> urls, renderers |-> rs]

\* textinput.Update for a key message: a rune key is appended to the value
TextInputUpdate(value, k) == IF k \in Runes THEN Append(value, k) ELSE value


\* an articleMsg handler that stores the article and stays loading
UpdateArticle_KeepLoading(mm, msg) ==
    IF msg.err
    THEN Result([mm EXCEPT !.loading = FALSE, !.ready = TRUE,
                           !.viewport = SetContent(mm.viewport, ErrorText, {})],
                FALSE, <<>>, <<>>)
    ELSE Result([mm EXCEPT !.article = msg.article], FALSE, <<>>, <<>>)

\* an articleMsg handler that stores the article and leaves the layout to
\* the next resize
UpdateArticle_NoRender(mm, msg) ==
    IF msg.err
    THEN Result([mm EXCEPT !.loading = FALSE, !.ready = TRUE,
                           !.viewport = SetContent(mm.viewport, ErrorText, {})],
                FALSE, <<>>, <<>>)
    ELSE Result([mm EXCEPT !.article = msg.article, !.loading = FALSE],
                FALSE, <<>>, <<>>)

\* Update, case articleMsg
UpdateArticle(mm, msg) ==
    IF msg.err
    THEN Result([mm EXCEPT !.loading = FALSE, !.ready = TRUE,
                           !.viewport = SetContent(mm.viewport, ErrorText, {})],
                FALSE, <<>>, <<>>)
    ELSE LET m1 == [mm EXCEPT !.article = msg.article, !.loading = FALSE]
         IN  IF m1.width > 0
             THEN Result(renderContent(m1), FALSE, <<>>, <<rendererWidth(m1)>>)
             ELSE Result(m1, FALSE, <<>>, <<>>)

\* a commit that stores and runs the input even when it is empty
SearchEnter_AlwaysStore(mm) ==
    LET m2 == executeSearch([mm EXCEPT !.searchQuery = mm.searchInput])
        m1 == IF Len(m2.searchMatches) > 0
              THEN jumpToMatch([m2 EXCEPT !.searchIdx = 0])
              ELSE m2
    IN  [m1 EXCEPT !.searching = FALSE]

\* Enter in the search prompt
SearchEnter(mm) ==
    LET query == mm.searchInput
        m1 == IF query # <<>>
              THEN LET m2 == executeSearch([mm EXCEPT !.searchQuery = query])
                   IN  IF Len(m2.searchMatches) > 0
                       THEN jumpToMatch([m2 EXCEPT !.searchIdx = 0])
                       ELSE m2
              ELSE mm
    IN  [m1 EXCEPT !.searching = FALSE]

\* Esc that drops the query but leaves the highlighted text in the viewport
SearchEsc_KeepHighlights(mm) ==
    [mm EXCEPT !.searching = FALSE, !.searchQuery = <<>>, !.searchMatches = <<>>]

\* Esc in the search prompt
SearchEsc(mm) ==
    LET m1 == [mm EXCEPT !.searching = FALSE]
        m2 == IF m1.rawContent # EmptyText
              THEN [m1 EXCEPT !.viewport = SetContent(m1.viewport, m1.rawContent, {})]
              ELSE m1
    IN  [m2 EXCEPT !.searchQuery = <<>>, !.searchMatches = <<>>]

\* Update, case tea.KeyMsg while m.searching
UpdateSearchKey(mm, k) ==
    CASE k = "enter" -> Result(SearchEnter(mm), FALSE, <<>>, <<>>)
      [] k = "esc" -> Result(SearchEsc(mm), FALSE, <<>>, <<>>)
      [] OTHER -> Result([mm EXCEPT !.searchInput = TextInputUpdate(mm.searchInput, k)],
                         FALSE, <<>>, <<>>)

\* the loop over article.Links taking the entered number as a 0-based position
OpenLoop_ZeroBased(links, num) ==
    IF num >= 0 /\ num < Len(links) THEN <<links[num + 1].URL>> ELSE <<>>

RECURSIVE OpenLoop(_, _)
\* the loop over article.Links: the URLs handed to openBrowser
OpenLoop(links, num) ==
    IF links = <<>> THEN <<>>
    ELSE IF Head(links).Index = num THEN <<Head(links).URL>>
         ELSE OpenLoop(Tail(links), num)

\* the openBrowser calls a commit of the link prompt makes
LinkEnter(mm) ==
    LET a == Atoi(mm.linkInput)
    IN  IF ~a.err /\ mm.article # Nil THEN OpenLoop(mm.article.Links, a.num) ELSE <<>>

\* Update, case tea.KeyMsg while m.openingLink
UpdateLinkKey(mm, k) ==
    CASE k = "enter" -> Result([mm EXCEPT !.openingLink = FALSE, !.linkInput = <<>>],
                               FALSE, LinkEnter(mm), <<>>)
      [] k = "esc" -> Result([mm EXCEPT !.openingLink = FALSE, !.linkInput = <<>>],
                             FALSE, <<>>, <<>>)
      [] OTHER -> Result([mm EXCEPT !.linkInput = TextInputUpdate(mm.linkInput, k)],
                         FALSE, <<>>, <<>>)

\* only "q" quits
QuitKeys_OnlyQ == {"q"}

\* the keys that quit in normal mode
QuitKeys == {"q", "ctrl+c"}

\* "n": the next match
NextMatch(mm) ==
    IF Len(mm.searchMatches) > 0
    THEN jumpToMatch([mm EXCEPT !.searchIdx = (mm.searchIdx + 1) % Len(mm.searchMatches)])
    ELSE mm

\* "N": the previous match
PrevMatch(mm) ==
    IF Len(mm.searchMatches) > 0
    THEN jumpToMatch([mm EXCEPT !.searchIdx =
            (mm.searchIdx - 1 + Len(mm.searchMatches)) % Len(mm.searchMatches)])
    ELSE mm

\* "/" opening the search prompt in every state
CanSearch_Always(mm) == TRUE

\* "/" opens the search prompt
CanSearch(mm) == ~mm.loading

\* "o" opening the link prompt for any article
CanOpenLink_AnyArticle(mm) == ~mm.loading /\ mm.article # Nil

\* "o" opens the link prompt
CanOpenLink(mm) == ~mm.loading /\ mm.article # Nil /\ Len(mm.article.Links) > 0

\* the viewport.Update call that ends Update for a message no case returned on
Fallthrough(mm, k) ==
    IF mm.ready /\ ~mm.loading
    THEN [mm EXCEPT !.viewport = ViewportUpdateKey(mm.viewport, k)]
    ELSE mm

\* an Esc that quits whether or not a search query is active
NormalEsc_AlwaysQuit(mm) == Result(mm, TRUE, <<>>, <<>>)

\* "esc" in normal mode: clear the active search, or quit
NormalEsc(mm) ==
    IF mm.searchQuery # <<>>
    THEN LET m1 == [mm EXCEPT !.searchQuery = <<>>, !.searchMatches = <<>>]
         IN  Result(IF m1.rawContent # EmptyText
                    THEN [m1 EXCEPT !.viewport =
                            SetContent(m1.viewport, m1.rawContent, {})]
                    ELSE m1,
                    FALSE, <<>>, <<>>)
    ELSE Result(mm, TRUE, <<>>, <<>>)

\* Update, case tea.KeyMsg in normal mode
UpdateNormalKey(mm, k) ==
    CASE k \in QuitKeys -> Result(mm, TRUE, <<>>, <<>>)
      [] k = "esc" -> NormalEsc(mm)
      [] k = "g" -> Result([mm EXCEPT !.viewport = GotoTop(mm.viewport)], FALSE, <<>>, <<>>)
      [] k = "G" -> Result([mm EXCEPT !.viewport = GotoBottom(mm.viewport)], FALSE, <<>>, <<>>)
      [] k = "/" ->
            IF CanSearch(mm)
            THEN Result([mm EXCEPT !.searching = TRUE, !.searchInput = <<>>],
                        FALSE, <<>>, <<>>)
            ELSE Result(Fallthrough(mm, k), FALSE, <<>>, <<>>)
      [] k = "n" -> Result(NextMatch(mm), FALSE, <<>>, <<>>)
      [] k = "N" -> Result(PrevMatch(mm), FALSE, <<>>, <<>>)
      [] k = "]" -> Result(jumpToNextHeading(mm), FALSE, <<>>, <<>>)
      [] k = "[" -> Result(jumpToPrevHeading(mm), FALSE, <<>>, <<>>)
      [] k = "o" ->
            IF CanOpenLink(mm)
            THEN Result([mm EXCEPT !.openingLink = TRUE, !.linkInput = <<>>],
                        FALSE, <<>>, <<>>)
            ELSE Result(Fallthrough(mm, k), FALSE, <<>>, <<>>)
      [] OTHER -> Result(Fallthrough(mm, k), FALSE, <<>>, <<>>)

\* a key handler that takes every key as a normal-mode key
UpdateKey_NoPromptRouting(mm, k) == UpdateNormalKey(mm, k)

\* Update, case tea.KeyMsg
UpdateKey(mm, k) ==
    IF mm.searching THEN UpdateSearchKey(mm, k)
    ELSE IF mm.openingLink THEN UpdateLinkKey(mm, k)
    ELSE UpdateNormalKey(mm, k)

\* a resize that stores the new size and does not lay the article out again
UpdateWindowSize_NoRender(mm, w, h) ==
    LET m1 == [mm EXCEPT !.width = w, !.height = h]
    IN  Result(IF ~m1.ready
               THEN [m1 EXCEPT !.viewport = NewViewport(w, h - 1), !.ready = TRUE]
               ELSE [m1 EXCEPT !.viewport.Width = w, !.viewport.Height = h - 1],
               FALSE, <<>>, <<>>)

\* Update, case tea.WindowSizeMsg
UpdateWindowSize(mm, w, h) ==
    LET verticalMargin == 1
        m1 == [mm EXCEPT !.width = w, !.height = h]
        m2 == IF ~m1.ready
              THEN [m1 EXCEPT !.viewport = NewViewport(w, h - verticalMargin),
                              !.ready = TRUE]
              ELSE [m1 EXCEPT !.viewport.Width = w,
                              !.viewport.Height = h - verticalMargin]
    IN  IF ~m2.loading /\ m2.article # Nil
        THEN Result(renderContent(m2), FALSE, <<>>, <<rendererWidth(m2)>>)
        ELSE Result(m2, FALSE, <<>>, <<>>)

-----------------------------------------------------------------------------
(* main *)

\* the width main uses when --width is not given
DefaultWidth == 90

\* the renderer.New(width) call of the pipe path
PipeRendererWidth(mn) == mn.width

-----------------------------------------------------------------------------
(* The program *)

NoKey == ""

\* the mode a message finds the Model in
Mode(mm) == IF mm.searching THEN "search"
            ELSE IF mm.openingLink THEN "link"
            ELSE "normal"

\* a message: its kind, its key, the mode of the Model it is delivered to
\* and whether a search query was active then
Event(kind, key) ==
    [kind |-> kind, key |-> key, mode |-> Mode(m), active |-> m.searchQuery # <<>>]

\* a package that is not called on its own
Idle == [pc |-> "idle"]

Init ==
    /\ lay = Idle
    /\ ext = Idle
    /\ m = NewModel
    /\ fetch = "pending"
    /\ quit = FALSE
    /\ launched = <<>>
    /\ ev = [kind |-> "init", key |-> NoKey, mode |-> "normal", active |-> FALSE]
    /\ main \in {[pipeMode |-> FALSE, width |-> DefaultWidth, pc |-> "run",
                  renderers |-> <<>>]}
           \cup {[pipeMode |-> TRUE, width |-> w, pc |-> "run", renderers |-> <<>>]
                    : w \in FlagWidths}

Interactive == ~main.pipeMode /\ ~quit

Deliver(res, e) ==
    /\ m' = res.m
    /\ quit' = res.quit
    /\ launched' = res.launched
    /\ main' = [main EXCEPT !.renderers = res.renderers]
    /\ UNCHANGED <<lay, ext>>
    /\ ev' = e

\* the fetchArticle command completes and its articleMsg is delivered
ArticleMsg ==
    /\ Interactive
    /\ fetch = "pending"
    /\ \E msg \in {[article |-> a, err |-> FALSE] : a \in Articles}
                  \cup {[article |-> Nil, err |-> TRUE]} :
          Deliver(UpdateArticle(m, msg),
                  Event(IF msg.err THEN "articleErr" ELSE "article", NoKey))
    /\ fetch' = "delivered"

\* a key is pressed while a prompt is open
PromptKey ==
    /\ Interactive
    /\ m.searching \/ m.openingLink
    /\ \E k \in PromptKeys \cup (IF m.searching THEN SearchRunes ELSE LinkRunes) :
          /\ k \in Runes =>
                Len(IF m.searching THEN m.searchInput ELSE m.linkInput) < MaxInput
          /\ Deliver(UpdateKey(m, k), Event("key", k))
    /\ UNCHANGED fetch

\* a key is pressed in normal mode
NormalKey ==
    /\ Interactive
    /\ ~m.searching /\ ~m.openingLink
    /\ \E k \in NormalKeys : Deliver(UpdateKey(m, k), Event("key", k))
    /\ UNCHANGED fetch

\* the terminal reports its size
WindowSize ==
    /\ Interactive
    /\ \E w \in TermWidths, h \in TermHeights :
          Deliver(UpdateWindowSize(m, w, h), Event("size", NoKey))
    /\ UNCHANGED fetch

\* main in pipe mode: fetch, parse, render at the flag's width, print
PipeMain ==
    /\ main.pipeMode /\ main.pc = "run"
    /\ \E ok \in BOOLEAN :
          main' = IF ok
                  THEN [main EXCEPT !.pc = "done",
                                    !.renderers = <<PipeRendererWidth(main)>>]
                  ELSE [main EXCEPT !.pc = "exit1"]
    /\ UNCHANGED <<m, fetch, quit, launched, ev, lay, ext>>

Next == ArticleMsg \/ PromptKey \/ NormalKey \/ WindowSize \/ PipeMain

Spec == Init /\ [][Next]_vars

\* the program outside the package under test: nothing of it runs
Standby ==
    /\ m = NewModel
    /\ fetch = "pending"
    /\ quit = FALSE
    /\ launched = <<>>
    /\ ev = [kind |-> "init", key |-> NoKey, mode |-> "normal", active |-> FALSE]
    /\ main = [pipeMode |-> FALSE, width |-> DefaultWidth, pc |-> "run",
               renderers |-> <<>>]

-----------------------------------------------------------------------------
(* package parser: Parse, parseHTML and the traversal of the parseContext  *)
(* over the node tree goquery hands it                                     *)

BlockCode == "BlockCode"
BlockList == "BlockList"
BlockQuote == "BlockQuote"
BlockHR == "BlockHR"

\* an attribute a node does not have, and one it has
NoAttr == [exists |-> FALSE, val |-> <<>>]
Attr(v) == [exists |-> TRUE, val |-> v]

\* nodes of the tree: text nodes and elements
TextNode(t) ==
    [tag |-> "#text", text |-> t, kids |-> <<>>,
     href |-> NoAttr, src |-> NoAttr, alt |-> NoAttr, class |-> NoAttr]
Element(tag, kids) ==
    [tag |-> tag, text |-> <<>>, kids |-> kids,
     href |-> NoAttr, src |-> NoAttr, alt |-> NoAttr, class |-> NoAttr]
Anchor(href, kids) == [Element("a", kids) EXCEPT !.href = href]
Img(src, alt) == [Element("img", <<>>) EXCEPT !.src = src, !.alt = alt]

RECURSIVE NodeText(_)
\* Selection.Text(): the text nodes below a node, concatenated
NodeText(n) ==
    IF n.tag = "#text" THEN n.text
    ELSE Flatten([i \in 1..Len(n.kids) |-> NodeText(n.kids[i])])

\* Selection.Attr(name): the value, "" when the attribute is missing
AttrVal(a) == IF a.exists THEN a.val ELSE <<>>

RECURSIVE Find(_, _)
\* Selection.Find(tag): the descendants with that tag, in document order
Find(n, tag) ==
    Flatten([i \in 1..Len(n.kids) |->
                (IF n.kids[i].tag = tag THEN <<n.kids[i]>> ELSE <<>>)
                \o Find(n.kids[i], tag)])

\* strings.HasPrefix
HasPrefix(s, pre) == Len(s) >= Len(pre) /\ SubSeq(s, 1, Len(pre)) = pre

\* strings.TrimPrefix
TrimPrefix(s, pre) ==
    IF HasPrefix(s, pre) THEN SubSeq(s, Len(pre) + 1, Len(s)) ELSE s

RECURSIVE TrimRight(_, _)
\* strings.TrimRight(s, cutset)
TrimRight(s, cutset) ==
    IF s # <<>> /\ s[Len(s)] \in cutset
    THEN TrimRight(SubSeq(s, 1, Len(s) - 1), cutset) ELSE s

RECURSIVE TrimLeft(_, _)
TrimLeft(s, cutset) ==
    IF s # <<>> /\ Head(s) \in cutset THEN TrimLeft(Tail(s), cutset) ELSE s

\* strings.TrimSpace
TrimSpace(s) == TrimLeft(TrimRight(s, {" "}), {" "})

RECURSIVE Join(_, _)
\* strings.Join
Join(ss, sep) ==
    IF ss = <<>> THEN <<>>
    ELSE IF Len(ss) = 1 THEN ss[1]
    ELSE ss[1] \o sep \o Join(Tail(ss), sep)

\* the entities of the strings.Replacer of decodeEntities that occur in the
\* texts modelled here
Entities ==
    << [old |-> <<"&", "a", "m", "p", ";">>, new |-> <<"&">>],
       [old |-> <<"&", "l", "t", ";">>, new |-> <<"<">>],
       [old |-> <<"&", "g", "t", ";">>, new |-> <<">">>] >>

RECURSIVE decodeEntities(_)
\* decodeEntities: every entity replaced, left to right
decodeEntities(s) ==
    IF s = <<>> THEN <<>>
    ELSE LET hits == {k \in 1..Len(Entities) : HasPrefix(s, Entities[k].old)}
         IN  IF hits = {} THEN <<Head(s)>> \o decodeEntities(Tail(s))
             ELSE LET k == CHOOSE x \in hits : \A y \in hits : x <= y
                  IN  Entities[k].new
                      \o decodeEntities(SubSeq(s, Len(Entities[k].old) + 1, Len(s)))

\* cleanText
cleanText(s) == Join(Fields(decodeEntities(s)), <<" ">>)

\* the loop of stripTags: position i is inside a tag when the nearest
\* bracket before it is "<"; the runes outside tags and not brackets are kept
stripTagsFrom(s, inTag) ==
    LET brackets(i) == {j \in 1..(i - 1) : s[j] \in {"<", ">"}}
        inside(i) == IF brackets(i) = {} THEN inTag
                     ELSE s[CHOOSE j \in brackets(i) :
                               \A k \in brackets(i) : k <= j] = "<"
        kept == {i \in 1..Len(s) : s[i] \notin {"<", ">"} /\ ~inside(i)}
        nth(k) == CHOOSE i \in kept : Cardinality({j \in kept : j <= i}) = k
    IN  [k \in 1..Cardinality(kept) |-> s[nth(k)]]

\* stripTags
stripTags(s) == TrimSpace(stripTagsFrom(s, FALSE))

\* the *url.URL that url.Parse failed to give, and the one it gives for u
NilURL == [nil |-> TRUE, url |-> <<>>]
URL(u) == [nil |-> FALSE, url |-> u]

\* url.Parse(href) fails: an invalid escape in the reference
BadURL(href) == \E i \in 1..Len(href) : href[i] = "%"

\* a reference with a scheme
IsAbsURL(href) == HasPrefix(href, <<"h", ":">>)

\* parseContext.resolveURL
resolveURL(ctx, href) ==
    IF ctx.base = NilURL THEN href
    ELSE IF BadURL(href) THEN href
    ELSE IF IsAbsURL(href) THEN href
    ELSE ctx.base.url \o href

\* ctx.links = append(ctx.links, Link{...}) keeping one entry for each URL
AppendLink_Dedup(ctx, text, href) ==
    LET c == [ctx EXCEPT !.linkIdx = @ + 1]
        url == resolveURL(ctx, href)
    IN  IF \E i \in 1..Len(ctx.links) : ctx.links[i].URL = url
        THEN c
        ELSE [c EXCEPT !.links =
                Append(@, [Index |-> c.linkIdx, Text |-> text, URL |-> url])]

\* ctx.linkIdx++; ctx.links = append(ctx.links, Link{...})
AppendLink(ctx, text, href) ==
    LET c == [ctx EXCEPT !.linkIdx = @ + 1]
    IN  [c EXCEPT !.links =
            Append(@, [Index |-> c.linkIdx, Text |-> text,
                       URL |-> resolveURL(ctx, href)])]

RECURSIVE ExtractContents(_, _, _, _)
RECURSIVE extractTextWithLinks(_, _)

\* the loop of extractTextWithLinks over s.Contents(): b is the builder
ExtractContents(ctx, kids, i, b) ==
    IF i > Len(kids) THEN [ctx |-> ctx, b |-> b]
    ELSE LET child == kids[i] IN
         IF child.tag = "a"
         THEN LET text == cleanText(NodeText(child)) IN
              IF text = <<>> THEN ExtractContents(ctx, kids, i + 1, b)
              ELSE IF child.href.exists /\ child.href.val # <<>>
                      /\ child.href.val # <<"#">>
              THEN LET c == AppendLink(ctx, text, child.href.val)
                   IN  ExtractContents(c, kids, i + 1,
                          b \o text \o <<" ", "[">> \o Itoa(c.linkIdx) \o <<"]">>)
              ELSE ExtractContents(ctx, kids, i + 1, b \o text)
         ELSE IF child.tag = "#text"
         THEN ExtractContents(ctx, kids, i + 1, b \o child.text)
         ELSE LET r == extractTextWithLinks(ctx, child)
              IN  ExtractContents(r.ctx, kids, i + 1, b \o r.text)

\* parseContext.extractTextWithLinks: the context after it and the text
extractTextWithLinks(ctx, s) ==
    LET r == ExtractContents(ctx, s.kids, 1, <<>>)
    IN  [ctx |-> r.ctx, text |-> Join(Fields(decodeEntities(r.b)), <<" ">>)]

\* ctx.blocks = append(ctx.blocks, block)
AppendBlock(ctx, block) == [ctx EXCEPT !.blocks = Append(@, block)]

RECURSIVE ListItems(_, _, _, _)
\* the loop over s.Find("li") collecting the items of a list
ListItems(ctx, lis, i, items) ==
    IF i > Len(lis) THEN [ctx |-> ctx, items |-> items]
    ELSE LET r == extractTextWithLinks(ctx, lis[i])
         IN  ListItems(r.ctx, lis, i + 1,
                       IF r.text # <<>> THEN Append(items, r.text) ELSE items)

Headings == {"h1", "h2", "h3", "h4", "h5", "h6"}

\* int(tagName[1] - '0')
HeadingLevel(tag) ==
    CHOOSE l \in 1..6 : <<"h1", "h2", "h3", "h4", "h5", "h6">>[l] = tag
Containers == {"div", "section", "article", "main"}

RECURSIVE extractBlocks(_, _)
RECURSIVE ExtractChildren(_, _, _)

\* the loop s.Children().Each(ctx.extractBlocks)
ExtractChildren(ctx, kids, i) ==
    IF i > Len(kids) THEN ctx
    ELSE ExtractChildren(
            IF kids[i].tag = "#text" THEN ctx ELSE extractBlocks(ctx, kids[i]),
            kids, i + 1)

\* parseContext.extractBlocks
extractBlocks(ctx, s) ==
    CASE s.tag \in Headings ->
            LET text == cleanText(NodeText(s)) IN
            IF text # <<>>
            THEN AppendBlock(ctx, [Type |-> BlockHeading,
                                   Level |-> HeadingLevel(s.tag), Text |-> text])
            ELSE ctx
      [] s.tag = "p" ->
            LET r == extractTextWithLinks(ctx, s) IN
            IF r.text # <<>>
            THEN AppendBlock(r.ctx, [Type |-> BlockParagraph, Level |-> 0,
                                     Text |-> r.text])
            ELSE r.ctx
      [] s.tag = "pre" ->
            LET code == Find(s, "code")
                text == TrimRight(IF Len(code) > 0
                                  THEN Flatten([i \in 1..Len(code) |-> NodeText(code[i])])
                                  ELSE NodeText(s), {" "})
                lang == IF Len(code) > 0 THEN AttrVal(code[1].class) ELSE <<>>
            IN  IF text # <<>>
                THEN AppendBlock(ctx,
                        [Type |-> BlockCode, Text |-> text,
                         Language |-> TrimPrefix(lang,
                            <<"l", "a", "n", "g", "u", "a", "g", "e", "-">>)])
                ELSE ctx
      [] s.tag \in {"ul", "ol"} ->
            LET r == ListItems(ctx, Find(s, "li"), 1, <<>>) IN
            IF Len(r.items) > 0
            THEN AppendBlock(r.ctx, [Type |-> BlockList, Items |-> r.items,
                                     Ordered |-> s.tag = "ol"])
            ELSE r.ctx
      [] s.tag = "blockquote" ->
            LET r == extractTextWithLinks(ctx, s) IN
            IF r.text # <<>>
            THEN AppendBlock(r.ctx, [Type |-> BlockQuote, Text |-> r.text])
            ELSE r.ctx
      [] s.tag = "hr" -> AppendBlock(ctx, [Type |-> BlockHR])
      [] s.tag = "figure" ->
            LET img == Find(s, "img")
                c1 == IF Len(img) > 0
                      THEN AppendBlock(ctx,
                              [Type |-> BlockImage, Alt |-> AttrVal(img[1].alt),
                               URL |-> resolveURL(ctx, AttrVal(img[1].src))])
                      ELSE ctx
                caption == Find(s, "figcaption")
                text == cleanText(Flatten([i \in 1..Len(caption) |->
                                              NodeText(caption[i])]))
            IN  IF Len(caption) > 0 /\ text # <<>>
                THEN AppendBlock(c1, [Type |-> BlockParagraph, Level |-> 0,
                                      Text |-> text])
                ELSE c1
      [] s.tag = "img" ->
            AppendBlock(ctx, [Type |-> BlockImage, Alt |-> AttrVal(s.alt),
                              URL |-> resolveURL(ctx, AttrVal(s.src))])
      [] s.tag \in Containers -> ExtractChildren(ctx, s.kids, 1)
      [] OTHER ->
            LET r == extractTextWithLinks(ctx, s) IN
            IF r.text # <<>>
            THEN AppendBlock(r.ctx, [Type |-> BlockParagraph, Level |-> 0,
                                     Text |-> r.text])
            ELSE r.ctx

\* ctx := &parseContext{base: base}
NewContext(base) == [blocks |-> <<>>, links |-> <<>>, linkIdx |-> 0, base |-> base]

RECURSIVE Serialize(_)
\* the markup of a sequence of nodes; every tag is written "<e>", its name
\* being of no matter to stripTags
Serialize(nodes) ==
    IF nodes = <<>> THEN <<>>
    ELSE (IF Head(nodes).tag = "#text" THEN Head(nodes).text
          ELSE <<"<", "e", ">">> \o Serialize(Head(nodes).kids)
               \o <<"<", "/", "e", ">">>)
         \o Serialize(Tail(nodes))

\* parseHTML when goquery cannot build a document: the text without tags as
\* one paragraph, or nothing
parseHTMLFallback(body) ==
    LET text == stripTags(Serialize(body))
    IN  [blocks |-> IF text # <<>>
                    THEN <<[Type |-> BlockParagraph, Level |-> 0, Text |-> text]>>
                    ELSE <<>>,
         links |-> <<>>]

\* base, _ := url.Parse(pageURL)
ParseBase(pageURL) == IF BadURL(pageURL) THEN NilURL ELSE URL(pageURL)

\* the Article Parse builds from what readability returns
NewArticle(doc, pageURL) ==
    [Title |-> IF doc.Title = <<>> THEN pageURL ELSE doc.Title,
     Author |-> <<>>, SiteName |-> <<>>, Content |-> <<>>, Links |-> <<>>]

-----------------------------------------------------------------------------
(* package parser called on its own: Parse applied to every page of up to  *)
(* MaxNodes top-level nodes                                                *)

\* the most top-level nodes of a page
MaxNodes == 2

\* the link targets of the pages
LinkU == Attr(<<"u">>)

\* the top-level nodes of the pages: a heading holding a link, a paragraph
\* with a link, a paragraph with two links to one target, a paragraph whose
\* anchors yield no link (href "#", no href, no text), an image without
\* src, a div holding a paragraph with a link, a list with a nested list
Nodes ==
    {Element("h2", <<TextNode(<<"A", " ">>), Anchor(LinkU, <<TextNode(<<"x">>)>>)>>),
     Element("p", <<TextNode(<<"b", " ">>), Anchor(LinkU, <<TextNode(<<"b">>)>>)>>),
     Element("p", <<Anchor(LinkU, <<TextNode(<<"x">>)>>),
                    Anchor(LinkU, <<TextNode(<<"x">>)>>)>>),
     Element("p", <<Anchor(Attr(<<"#">>), <<TextNode(<<"x">>)>>),
                    Anchor(NoAttr, <<TextNode(<<" ", "y">>)>>),
                    Anchor(LinkU, <<TextNode(<<" ">>)>>)>>),
     Img(NoAttr, NoAttr),
     Element("div", <<TextNode(<<"d">>),
                      Element("p", <<Anchor(Attr(<<"h", ":", "v">>),
                                            <<TextNode(<<"&", "a", "m", "p", ";">>)>>)>>)>>),
     Element("ul", <<Element("li", <<Anchor(LinkU, <<TextNode(<<"x">>)>>),
                                     Element("ul", <<Element("li",
                                        <<Anchor(LinkU, <<TextNode(<<"y">>)>>)>>)>>)>>)>>)}

RECURSIVE SeqsUpTo(_, _)
\* the sequences of at most n elements of S
SeqsUpTo(S, n) ==
    IF n = 0 THEN {<<>>}
    ELSE LET shorter == SeqsUpTo(S, n - 1)
         IN  shorter \cup {Append(q, x) : q \in {p \in shorter : Len(p) = n - 1},
                                          x \in S}

\* the pages: what readability.FromReader returns for them
Pages ==
    {[Title |-> t, Content |-> c]
        : t \in {<<>>, <<"T">>}, c \in SeqsUpTo(Nodes, MaxNodes)}

\* the page URLs: one url.Parse accepts and one it rejects
PageURLs == {<<"h", ":", "/">>, <<"%">>}

ParseInit ==
    /\ Standby
    /\ lay = Idle
    /\ \E d \in Pages, u \in PageURLs :
          ext = [pc |-> "Parse", doc |-> d, pageURL |-> u,
                 article |-> Nil, ctx |-> NewContext(NilURL), i |-> 0,
                 err |-> FALSE]

\* Parse: readability.FromReader returns the page or an error
FromReader ==
    /\ ext.pc = "Parse"
    /\ \E failed \in BOOLEAN :
          ext' = IF failed
                 THEN [ext EXCEPT !.pc = "returned", !.err = TRUE]
                 ELSE [ext EXCEPT !.pc = "parseHTML",
                                  !.article = NewArticle(ext.doc, ext.pageURL)]
    /\ UNCHANGED <<m, fetch, quit, launched, ev, main, lay>>

\* parseHTML: goquery builds the document, or fails and the text without
\* tags is returned as one paragraph
NewDocument ==
    /\ ext.pc = "parseHTML"
    /\ \E failed \in BOOLEAN :
          ext' = IF failed
                 THEN LET r == parseHTMLFallback(ext.doc.Content)
                      IN  [ext EXCEPT !.pc = "returned",
                                      !.article.Content = r.blocks,
                                      !.article.Links = r.links]
                 ELSE [ext EXCEPT !.pc = "Each", !.i = 1,
                                  !.ctx = NewContext(ParseBase(ext.pageURL))]
    /\ UNCHANGED <<m, fetch, quit, launched, ev, main, lay>>

\* parseHTML: extractBlocks on the next child of body
Each ==
    /\ ext.pc = "Each"
    /\ ext.i <= Len(ext.doc.Content)
    /\ ext' = [ext EXCEPT !.i = @ + 1,
                          !.ctx = extractBlocks(ext.ctx, ext.doc.Content[ext.i])]
    /\ UNCHANGED <<m, fetch, quit, launched, ev, main, lay>>

\* parseHTML returns ctx.blocks and ctx.links, Parse returns the Article
ParseReturn ==
    /\ ext.pc = "Each"
    /\ ext.i > Len(ext.doc.Content)
    /\ ext' = [ext EXCEPT !.pc = "returned",
                          !.article.Content = ext.ctx.blocks,
                          !.article.Links = ext.ctx.links]
    /\ UNCHANGED <<m, fetch, quit, launched, ev, main, lay>>

ParseNext == FromReader \/ NewDocument \/ Each \/ ParseReturn

ParseSpec == ParseInit /\ [][ParseNext]_vars

-----------------------------------------------------------------------------
(* package renderer called on its own: RenderArticle applied, twice, to    *)
(* Articles of every shape of up to MaxBlocks blocks                       *)

\* the most blocks of an Article given to RenderArticle
MaxBlocks == 2

\* the widths the Renderers are built with
RenderWidths == {12, 40}

\* the blocks the Articles are made of: a heading, a paragraph that wraps at
\* the narrow width, an image with a URL and alt text, an image without a URL
Blocks ==
    {[Type |-> BlockHeading, Level |-> 2, Text |-> <<"A">>],
     [Type |-> BlockParagraph, Level |-> 0,
      Text |-> <<"q", " ", "q", " ", "q", " ", "q", " ", "q", " ", "q">>],
     [Type |-> BlockImage, Alt |-> <<"a">>, URL |-> <<"i">>],
     [Type |-> BlockImage, Alt |-> <<>>, URL |-> <<>>]}

\* the Articles given to RenderArticle
Documents ==
    {[Title |-> <<"T">>, Author |-> <<>>, SiteName |-> <<>>,
      Content |-> c, Links |-> <<>>]
        : c \in UNION {[1..n -> Blocks] : n \in 1..MaxBlocks}}

RenderInit ==
    /\ Standby
    /\ ext = Idle
    /\ \E a \in Documents, w \in RenderWidths, e \in Environments :
          lay = [pc |-> "new", article |-> a, r |-> NewRenderer(w, e),
                 calls |-> <<>>]

\* one call r.RenderArticle(article) whose downloads give img: the Renderer
\* keeps the HeadingLines, the call is recorded with what it returned
Call(r, article, img) ==
    LET res == RenderArticle(r, article, img)
    IN  [r |-> [r EXCEPT !.HeadingLines = res.HeadingLines],
         call |-> [inlineImages |-> r.inlineImages, img |-> img,
                   before |-> r.HeadingLines,
                   content |-> res.content, HeadingLines |-> res.HeadingLines]]

\* what the downloads of an Article's images can give: one result for each
\* block of the images section
Downloads(article) ==
    {img \in [1..Len(article.Content) -> ImageResults] :
        \A i \in 1..Len(article.Content) :
            ~InImageSection(article.Content[i]) =>
                img[i] = [inline |-> FALSE, ascii |-> FALSE]}

\* the first call of RenderArticle, on the Renderer New returned
RenderFirst ==
    /\ lay.pc = "new"
    /\ \E img \in Downloads(lay.article) :
          LET c == Call(lay.r, lay.article, img)
          IN  lay' = [lay EXCEPT !.pc = "called", !.r = c.r,
                                 !.calls = Append(@, c.call)]
    /\ UNCHANGED <<m, fetch, quit, launched, ev, main, ext>>

\* RenderArticle is called a second time on the same Renderer
RenderAgain ==
    /\ lay.pc = "called"
    /\ \E img \in Downloads(lay.article) :
          LET c == Call(lay.r, lay.article, img)
          IN  lay' = [lay EXCEPT !.pc = "done", !.r = c.r,
                                 !.calls = Append(@, c.call)]
    /\ UNCHANGED <<m, fetch, quit, launched, ev, main, ext>>

\* RenderArticle is called a second time, on another Renderer of the same
\* width, built by New in whatever the environment is then
RenderOnNew ==
    /\ lay.pc = "called"
    /\ \E e \in Environments, img \in Downloads(lay.article) :
          LET c == Call(NewRenderer(lay.r.width, e), lay.article, img)
          IN  lay' = [lay EXCEPT !.pc = "done", !.r = c.r,
                                 !.calls = Append(@, c.call)]
    /\ UNCHANGED <<m, fetch, quit, launched, ev, main, ext>>

RenderNext == RenderFirst \/ RenderAgain \/ RenderOnNew

RenderSpec == RenderInit /\ [][RenderNext]_vars

-----------------------------------------------------------------------------
(* Renderer.renderTable called on tables of up to MaxCols columns          *)

\* the most cells of a row
MaxCols == 2

\* the widths of the Renderers that render tables
TableWidths == {8, 12, 20, 40}

\* the cells: empty, short, long
Cells == {<<>>, <<"a", "b">>, Repeat("c", 9)}

\* the rows, of 0..MaxCols cells
TableRows == SeqsUpTo(Cells, MaxCols) \cup {<<>>}

\* the Table blocks: no row, one row, two rows; with or without a header
Tables ==
    {[Type |-> BlockTable, Header |-> h, Rows |-> rs] :
        h \in BOOLEAN,
        rs \in {<<>>} \cup {<<r>> : r \in TableRows}
                      \cup {<<r, q>> : r \in TableRows, q \in TableRows}}

TableInit ==
    /\ Standby
    /\ ext = Idle
    /\ \E t \in Tables, w \in TableWidths :
          lay = [pc |-> "table", block |-> t, width |-> w,
                 natural |-> <<>>, result |-> Nil, calls |-> <<>>]

\* r.renderTable(block)
RenderTable ==
    /\ lay.pc = "table"
    /\ lay' = [lay EXCEPT
                  !.pc = "rendered",
                  !.natural = [j \in 1..NumCols(lay.block.Rows) |->
                                  NaturalWidth(lay.block.Rows, j)],
                  !.result = renderTable(lay.width, lay.block)]
    /\ UNCHANGED <<m, fetch, quit, launched, ev, main, ext>>

TableNext == RenderTable

TableSpec == TableInit /\ [][TableNext]_vars

-----------------------------------------------------------------------------
(* RenderArticle called with the widths its callers can pass: the value of *)
(* --width in pipe mode, min(terminal width, 90) on a resize               *)

\* the widest narrow Renderer
MaxNarrow == 7

\* the widths passed to renderer.New
CallerWidths == 0..MaxNarrow

\* the Articles rendered: the Documents, and each of them with a Link
NarrowDocuments ==
    Documents
    \cup {[d EXCEPT !.Links = << [Index |-> 1, Text |-> <<"b">>, URL |-> <<"u">>] >>]
            : d \in Documents}

NarrowInit ==
    /\ Standby
    /\ ext = Idle
    /\ \E a \in NarrowDocuments, w \in CallerWidths :
          lay = [pc |-> "new", article |-> a,
                 r |-> NewRenderer(w, [TERM_PROGRAM |-> "", LC_TERMINAL |-> ""]),
                 panic |-> FALSE, calls |-> <<>>]

\* r.RenderArticle(article): it panics, or returns
RenderNarrow ==
    /\ lay.pc = "new"
    /\ lay' = IF RenderArticlePanics(lay.r, lay.article)
              THEN [lay EXCEPT !.pc = "panicked", !.panic = TRUE]
              ELSE LET c == Call(lay.r, lay.article, NoImages(lay.article))
                   IN  [lay EXCEPT !.pc = "returned", !.r = c.r,
                                   !.calls = Append(@, c.call)]
    /\ UNCHANGED <<m, fetch, quit, launched, ev, main, ext>>

NarrowNext == RenderNarrow

NarrowSpec == NarrowInit /\ [][NarrowNext]_vars


-----------------------------------------------------------------------------
(* package ui in a short terminal: the article is longer than the window,  *)
(* so the viewport can scroll to the headings                              *)

\* the heights of the short terminal
ShortHeights == {6, 10, 16}

\* keys pressed in normal mode that move the viewport
ScrollKeys == {"]", "[", "g", "G", "j", "k"}

\* the short terminal reports its size
ShortWindowSize ==
    /\ Interactive
    /\ \E w \in TermWidths, h \in ShortHeights :
          Deliver(UpdateWindowSize(m, w, h), Event("size", NoKey))
    /\ UNCHANGED fetch

\* a key that moves the viewport is pressed
ScrollKey ==
    /\ Interactive
    /\ ~m.searching /\ ~m.openingLink
    /\ \E k \in ScrollKeys : Deliver(UpdateKey(m, k), Event("key", k))
    /\ UNCHANGED fetch

ScrollInit == Standby /\ lay = Idle /\ ext = Idle

ScrollNext == ArticleMsg \/ ShortWindowSize \/ ScrollKey

ScrollSpec == ScrollInit /\ [][ScrollNext]_vars

-----------------------------------------------------------------------------
(* Properties *)

\* the controller states of the specification
Loading == m.loading
ErrorState == ~m.loading /\ m.article = Nil
Terminated == quit

KeyEvent(e, mode, keys) == e.kind = "key" /\ e.mode = mode /\ e.key \in keys

\* what the viewport displays: a viewport never given content displays the
\* empty text
Shown(vp) == IF vp.lines = <<>> THEN EmptyText ELSE vp.lines

RECURSIVE SortedSeq(_)
SortedSeq(S) ==
    IF S = {} THEN <<>>
    ELSE LET x == CHOOSE y \in S : \A z \in S : y <= z
         IN  <<x>> \o SortedSeq(S \ {x})

\* line contains query, letters compared without regard to case
ContainsFold(line, query) ==
    \E o \in 0..(Len(line) - Len(query)) :
        \A j \in 1..Len(query) : LowerChar(line[o + j]) = LowerChar(query[j])

\* the increasing list of the 0-based indices of the lines containing query
ExpectedMatches(lines, query) ==
    SortedSeq({i \in 0..(Len(lines) - 1) : ContainsFold(lines[i + 1], query)})

\* the offset a viewport over lines of the given height can scroll to when
\* asked for line n
Clamped(n, lines, height) ==
    LET top == IF Len(lines) > height THEN Len(lines) - height ELSE 0
    IN  IF n > top THEN top ELSE n

\* C1 as stated: from every state that is not Terminated, also with a prompt
\* open, the key "q" or "ctrl+c" leads to Terminated.
C1_QuitFromEveryState ==
    [][(~quit /\ ev'.kind = "key" /\ ev'.key \in {"q", "ctrl+c"}) => quit']_vars

\* C1 amended: with no prompt open (Loading, Ready, Error) the key "q" or
\* "ctrl+c" leads to Terminated; with the search or link prompt open the key
\* goes to the prompt, which stays open, and the controller does not
\* terminate.
C1_QuitOutsidePrompt ==
    [][(~quit /\ ev'.kind = "key" /\ ev'.key \in {"q", "ctrl+c"}) =>
         /\ (~m.searching /\ ~m.openingLink) => quit'
         /\ (m.searching \/ m.openingLink) =>
               /\ ~quit'
               /\ m'.searching = m.searching
               /\ m'.openingLink = m.openingLink]_vars

\* "ctrl+c" pressed in the Error state has terminated the controller
C1_Witness ==
    /\ quit
    /\ KeyEvent(ev, "normal", {"ctrl+c"})
    /\ ErrorState

\* C2 as stated: in the Error state no prompt is open and the viewport shows
\* the error message, whatever keys were pressed.
C2_ErrorKeysIgnored ==
    ErrorState =>
        /\ ~m.searching
        /\ ~m.openingLink
        /\ Shown(m.viewport) = ErrorText

\* C3 as stated: Enter on a non-empty search input stores it as the query,
\* computes the match set, sets the pointer to 0 whatever the match set's
\* size, returns to Ready and, with matches, scrolls to the first match (as
\* far as the viewport scrolls).
C3_CommitResetsPointer ==
    [][(KeyEvent(ev', "search", {"enter"}) /\ m.searchInput # <<>>) =>
         /\ ~m'.searching
         /\ m'.searchQuery = m.searchInput
         /\ m'.searchMatches = ExpectedMatches(m'.contentLines, m.searchInput)
         /\ m'.searchIdx = 0
         /\ m'.searchMatches # <<>> =>
               m'.viewport.YOffset =
                  Clamped(m'.searchMatches[1], m'.viewport.lines, m'.viewport.Height)
      ]_vars

\* C4: while a query is active the match set is the increasing list of the
\* indices of the lines of the current layout (the article laid out at
\* min(width, 90)) that contain the query without regard to case.
C4_MatchesAreCurrent ==
    m.searchQuery # <<>> =>
        /\ m.searchMatches = ExpectedMatches(m.contentLines, m.searchQuery)
        /\ (m.article # Nil /\ m.width > 0) =>
              m.contentLines = Layout(m.article, IF m.width < 90 THEN m.width ELSE 90).content

\* a resize has changed the match count of the active query from 3 to 2
C4_Witness ==
    /\ ev.kind = "size"
    /\ ev.active
    /\ m.searchQuery = <<"q">>
    /\ m.width = 120
    /\ Len(m.searchMatches) = 2
    /\ Len(ExpectedMatches(Layout(m.article, 12).content, m.searchQuery)) = 3

\* NextMatch applied k times
RECURSIVE IterNext(_, _)
IterNext(mm, k) == IF k = 0 THEN mm ELSE IterNext(NextMatch(mm), k - 1)

\* C5 as stated: with K >= 1 matches, "n" moves the pointer one forward
\* modulo K and sets the viewport top to the selected match's line (as far
\* as the viewport scrolls); from the state "n" is pressed in, K presses of
\* "n" return the pointer to its value, and "N" after "n" restores it.
C5_CycleModulo ==
    [][(KeyEvent(ev', "normal", {"n"}) /\ Len(m.searchMatches) >= 1) =>
         LET K == Len(m.searchMatches) IN
         /\ m'.searchIdx = (m.searchIdx + 1) % K
         /\ m'.viewport.YOffset =
               Clamped(m.searchMatches[m'.searchIdx + 1], m.viewport.lines,
                       m.viewport.Height)
         /\ IterNext(m, K).searchIdx = m.searchIdx
         /\ PrevMatch(m').searchIdx = m.searchIdx
      ]_vars

\* C6: a resize delivered when not Loading and with an article lays the
\* article out at min(new width, 90), keeps the query and the mode, and
\* recomputes the match set and the highlighting against the new lines.
C6_ResizeKeepsQuery ==
    [][(ev'.kind = "size" /\ ~m.loading /\ m.article # Nil) =>
         LET w == IF m'.width < 90 THEN m'.width ELSE 90 IN
         /\ main'.renderers = <<w>>
         /\ m'.contentLines = Layout(m.article, w).content
         /\ m'.rawContent = m'.contentLines
         /\ m'.viewport.lines = m'.contentLines
         /\ m'.article = m.article
         /\ m'.searchQuery = m.searchQuery
         /\ m'.searching = m.searching
         /\ m'.openingLink = m.openingLink
         /\ m.searchQuery # <<>> =>
               m'.searchMatches = ExpectedMatches(m'.contentLines, m.searchQuery)
         /\ m'.viewport.hl =
               IF m.searchQuery # <<>>
               THEN {m'.searchMatches[j] : j \in 1..Len(m'.searchMatches)}
               ELSE {}
      ]_vars

\* a resize to 120 columns arrived with the search prompt open and a query
\* active, and the layout is the one for 90 columns
C6_Witness ==
    /\ ev.kind = "size"
    /\ ev.mode = "search"
    /\ ev.active
    /\ m.searching
    /\ m.searchQuery = <<"q">>
    /\ m.width = 120
    /\ m.contentLines = Layout(Article1, 90).content

\* the value of a string of decimal digits
RECURSIVE DigitsValue(_, _)
DigitsValue(s, acc) ==
    IF s = <<>> THEN acc
    ELSE DigitsValue(Tail(s),
                     10 * acc + (CHOOSE d \in 0..9 : Digits[d + 1] = Head(s)))

\* the openBrowser calls expected for an input: the URL of the Link whose
\* index is the entered integer, once, or none
ExpectedLaunch(input, article) ==
    IF /\ article # Nil
       /\ input # <<>>
       /\ \A i \in 1..Len(input) : input[i] \in {Digits[d] : d \in 1..10}
    THEN LET n == DigitsValue(input, 0)
             hits == {i \in 1..Len(article.Links) : article.Links[i].Index = n}
         IN  IF hits = {} THEN <<>>
             ELSE <<article.Links[CHOOSE i \in hits : TRUE].URL>>
    ELSE <<>>

\* C7: Enter in the link prompt calls openBrowser once with the URL of the
\* Link whose index is the entered integer when there is one, makes no call
\* otherwise, and in every case closes the prompt, clears its input and
\* leaves the displayed content alone.
C7_LinkCommit ==
    [][KeyEvent(ev', "link", {"enter"}) =>
         /\ launched' = ExpectedLaunch(m.linkInput, m.article)
         /\ ~m'.openingLink
         /\ ~m'.searching
         /\ m'.linkInput = <<>>
         /\ m'.viewport = m.viewport
         /\ ~quit'
      ]_vars

\* Enter in the link prompt has opened the URL of Link 1
C7_Witness ==
    /\ KeyEvent(ev, "link", {"enter"})
    /\ launched = << <<"u">> >>
    /\ ~m.openingLink
    /\ m.linkInput = <<>>

\* C8: opening the search prompt, typing into it and committing it empty
\* leave the active query, the match set, the pointer and the displayed
\* content as they were; the empty commit returns to Ready.
C8_EmptyCommitNoOp ==
    [][(\/ KeyEvent(ev', "normal", {"/"}) /\ m'.searching
        \/ KeyEvent(ev', "search", SearchRunes)
        \/ KeyEvent(ev', "search", {"enter"}) /\ m.searchInput = <<>>) =>
         /\ m'.searchQuery = m.searchQuery
         /\ m'.searchMatches = m.searchMatches
         /\ m'.searchIdx = m.searchIdx
         /\ m'.viewport = m.viewport
         /\ m'.contentLines = m.contentLines
         /\ m'.rawContent = m.rawContent
         /\ KeyEvent(ev', "search", {"enter"}) => (~m'.searching /\ ~m'.openingLink)
      ]_vars

\* the search prompt was committed empty while a query with a second match
\* selected was active, and the highlighted content is still displayed
C8_Witness ==
    /\ KeyEvent(ev, "search", {"enter"})
    /\ ev.active
    /\ m.searchInput = <<>>
    /\ ~m.searching
    /\ m.searchQuery = <<"q">>
    /\ m.searchIdx = 1
    /\ m.viewport.hl # {}

\* C9: Esc in the search prompt of a controller holding an article returns
\* to Ready with no query and no matches, and the viewport displays the raw
\* layout with no line highlighted.
C9_CancelRestoresRaw ==
    [][(KeyEvent(ev', "search", {"esc"}) /\ m.article # Nil) =>
         /\ ~m'.searching
         /\ ~m'.openingLink
         /\ m'.searchQuery = <<>>
         /\ m'.searchMatches = <<>>
         /\ m'.viewport.hl = {}
         /\ Shown(m'.viewport) = m'.rawContent
         /\ m'.rawContent = m.rawContent
      ]_vars

\* Esc was pressed in the search prompt while a query was active, and the
\* raw layout is displayed
C9_Witness ==
    /\ KeyEvent(ev, "search", {"esc"})
    /\ ev.active
    /\ m.article = Article1
    /\ m.rawContent # EmptyText
    /\ m.searchQuery = <<>>
    /\ m.viewport.hl = {}

\* C10 as stated: no Renderer is built with a width above 90, neither by the
\* pipe path nor by the interactive one.
C10_WidthAtMost90 ==
    \A i \in 1..Len(main.renderers) : main.renderers[i] <= 90

\* C10 amended: the interactive path builds its Renderer with min(terminal
\* width, 90); the pipe path builds it with the value of --width as given.
C10_WidthCappedInteractive ==
    /\ ~main.pipeMode =>
          \A i \in 1..Len(main.renderers) :
              /\ main.renderers[i] <= 90
              /\ main.renderers[i] = (IF m.width < 90 THEN m.width ELSE 90)
    /\ (main.pipeMode /\ main.pc = "done") => main.renderers = <<main.width>>

\* the terminal is 120 columns wide and the Renderer was built with 90
C10_Witness ==
    /\ ~main.pipeMode
    /\ m.width = 120
    /\ main.renderers = <<90>>


\* the calls of RenderArticle made so far on the Article at hand
Calls == IF lay.pc = "idle" THEN <<>> ELSE lay.calls

\* two calls returned the same text and the same heading offsets
SameResult(c, d) == c.content = d.content /\ c.HeadingLines = d.HeadingLines

\* C11 as stated: any two calls of RenderArticle with the same Article and
\* the same width return the same text and the same heading offsets,
\* whatever the terminal environment and the image downloads were.
C11_SameArgumentsSameOutput ==
    \A i, j \in 1..Len(Calls) : SameResult(Calls[i], Calls[j])

\* C11 amended: two calls with the same Article and width return the same
\* text and heading offsets when the Renderers have the same inline-image
\* capability and the image downloads give the same results, whether or not
\* the Renderer was used before; for an Article with no Image block that
\* has a URL the result depends on nothing else than Article and width.
C11_DeterministicGivenImages ==
    \A i, j \in 1..Len(Calls) :
        /\ (Calls[i].inlineImages = Calls[j].inlineImages
              /\ Calls[i].img = Calls[j].img) => SameResult(Calls[i], Calls[j])
        /\ (\A k \in 1..Len(lay.article.Content) :
               ~InImageSection(lay.article.Content[k])) =>
              SameResult(Calls[i], Calls[j])

\* RenderArticle was called twice on one Renderer that held heading offsets
\* from the first call; the image was drawn inline both times and both
\* calls returned the same
C11_Witness ==
    /\ Len(Calls) = 2
    /\ Calls[2].before # <<>>
    /\ Calls[1].inlineImages
    /\ \E k \in 1..Len(lay.article.Content) :
          /\ InImageSection(lay.article.Content[k])
          /\ Calls[1].img[k].inline
    /\ Calls[1].img = Calls[2].img
    /\ SameResult(Calls[1], Calls[2])
    /\ Calls[2].HeadingLines # <<>>

\* the Link list carries the indices 1..N in its order
IndicesInOrder(links) == \A i \in 1..Len(links) : links[i].Index = i

\* an anchor that is to yield a Link: it has an href other than "" and "#"
\* and some text that is not blank
LinkingAnchor(n) ==
    /\ n.tag = "a"
    /\ n.href.exists /\ n.href.val \notin {<<>>, <<"#">>}
    /\ \E i \in 1..Len(NodeText(n)) : NodeText(n)[i] # " "

RECURSIVE ParagraphAnchors(_)
\* the number of linking anchors that are children of the top-level
\* paragraphs of a page
ParagraphAnchors(nodes) ==
    IF nodes = <<>> THEN 0
    ELSE (IF Head(nodes).tag = "p"
          THEN Cardinality({i \in 1..Len(Head(nodes).kids) :
                               LinkingAnchor(Head(nodes).kids[i])})
          ELSE 0)
         + ParagraphAnchors(Tail(nodes))

\* Parse has returned an Article built by the traversal
Extracted == ext.pc = "returned" /\ ~ext.err /\ ext.i > 0

\* C12: the Link list of the parseContext, and of the Article returned, has
\* the indices 1..N in the order of appending with no gap and no repeat,
\* and every linking anchor of a paragraph has an entry of its own, also
\* when two anchors have the same href.
C12_LinkIndices ==
    /\ ext.pc \in {"Each", "returned"} =>
          /\ IndicesInOrder(ext.ctx.links)
          /\ ext.ctx.linkIdx = Len(ext.ctx.links)
    /\ ext.pc = "returned" /\ ~ext.err => IndicesInOrder(ext.article.Links)
    /\ Extracted =>
          /\ ext.article.Links = ext.ctx.links
          /\ Len(ext.article.Links) >= ParagraphAnchors(ext.doc.Content)
          /\ (\A i \in 1..Len(ext.doc.Content) : ext.doc.Content[i].tag = "p") =>
                Len(ext.article.Links) = ParagraphAnchors(ext.doc.Content)

\* Parse has returned an Article whose Links 2 and 3 have the same URL,
\* from a page with a paragraph holding two anchors with one href
C12_Witness ==
    /\ Extracted
    /\ Len(ext.article.Links) = 3
    /\ ext.article.Links[2].URL = ext.article.Links[3].URL
    /\ ext.article.Links[2].Index = 2
    /\ ext.article.Links[3].Index = 3
    /\ Len(ext.doc.Content) = 2
    /\ ext.doc.Content[2].tag = "p"
    /\ Len(ext.doc.Content[2].kids) = 2

\* a line of the returned text is an image's caption-less emission: the
\* inline raster, a row of the ASCII picture, or a placeholder
IsPlaceholderLine(line) ==
    /\ Len(line) > 10
    /\ SubSeq(line, 1, 10) = <<" ", " ", "[", "I", "M", "A", "G", "E", ":", " ">>

\* the number of image emissions in a returned text
ImageEmissions(content) ==
    Cardinality({i \in 1..Len(content) :
                    \/ content[i] = InlineImageLine
                    \/ content[i] = ASCIIImageLines[1]
                    \/ IsPlaceholderLine(content[i])})

\* the number of Image blocks of an Article
ImageBlocks(article) ==
    Cardinality({i \in 1..Len(article.Content) :
                    article.Content[i].Type = BlockImage})

\* C13 as stated: the text RenderArticle returns holds, for every Image
\* block of the Article, exactly one emission (inline raster, ASCII picture
\* or placeholder), so as many emissions as the Article has Image blocks.
C13_EveryImageOnce ==
    \A k \in 1..Len(Calls) :
        ImageEmissions(Calls[k].content) = ImageBlocks(lay.article)

\* the values of a list of offsets
Offsets(hs) == {hs[j] : j \in 1..Len(hs)}

\* the smallest element of a non-empty set of numbers, and the largest
Smallest(S) == CHOOSE x \in S : \A y \in S : x <= y
Largest(S) == CHOOSE x \in S : \A y \in S : x >= y

\* the offset the forward jump selects from the offsets hs at viewport top t
ForwardTarget(hs, t) ==
    IF \E x \in Offsets(hs) : x > t
    THEN Smallest({x \in Offsets(hs) : x > t}) ELSE hs[1]

\* the offset the backward jump selects
BackwardTarget(hs, t) ==
    IF \E x \in Offsets(hs) : x < t
    THEN Largest({x \in Offsets(hs) : x < t}) ELSE hs[Len(hs)]

\* C14: with at least one recorded heading offset and viewport top t, the
\* key "]" scrolls to the smallest offset greater than t, or to the first
\* offset if none is greater; the key "[" scrolls to the largest offset less
\* than t, or to the last offset if none is smaller (as far as the viewport
\* can scroll); with no heading offsets both keys leave the viewport as it
\* is.  Nothing else of the Model changes.
C14_SectionJump ==
    [][KeyEvent(ev', "normal", {"]", "["}) =>
          LET hs == m.headingLines
              t == m.viewport.YOffset
              target == IF ev'.key = "]" THEN ForwardTarget(hs, t)
                        ELSE BackwardTarget(hs, t)
          IN  IF Len(hs) = 0 THEN m' = m
              ELSE m' = [m EXCEPT !.viewport.YOffset =
                            Clamped(target, m.viewport.lines, m.viewport.Height)]
      ]_vars

\* the key "]" was pressed with the viewport on the first of two headings
\* and the viewport is now on the second
C14_Witness ==
    /\ KeyEvent(ev, "normal", {"]"})
    /\ Len(m.headingLines) >= 2
    /\ m.viewport.YOffset = m.headingLines[2]
    /\ m.headingLines[2] > m.headingLines[1]

\* C15 as stated: Parse never returns an error: whenever it has returned, it
\* has returned an Article, and when the markup could not be parsed that
\* Article holds a single Paragraph block and no Links.
C15_ExtractionNeverFails ==
    ext.pc = "returned" =>
        /\ ~ext.err
        /\ ext.article # Nil
        /\ ext.i = 0 =>
              /\ Len(ext.article.Content) = 1
              /\ ext.article.Content[1].Type = BlockParagraph
              /\ ext.article.Links = <<>>

\* C16: while loading the Model holds no Article; the Article is assigned
\* only by the delivery of the one articleMsg of the session, which ends
\* loading; once held it is never replaced or changed, and no key or resize
\* message (with the layout it triggers) assigns or changes it.
C16_ArticleHeldOnce ==
    [][/\ m.loading => m.article = Nil
       /\ m'.loading => m'.article = Nil
       /\ m'.article # m.article =>
             /\ ev'.kind = "article"
             /\ fetch = "pending" /\ fetch' = "delivered"
             /\ m.loading /\ ~m'.loading
             /\ m.article = Nil
       /\ ev'.kind = "article" => m'.article \in Articles
       /\ ev'.kind \in {"key", "size"} => m'.article = m.article
       /\ fetch = "delivered" => fetch' = "delivered"
      ]_vars

\* a resize has laid the held Article out again, with a search query active
C16_Witness ==
    /\ ev.kind = "size"
    /\ ~m.loading
    /\ m.article = Article1
    /\ m.searchQuery # <<>>
    /\ m.viewport.lines # <<>>

\* the controller holds an article and is not loading
Ready(mm) == ~mm.loading /\ mm.article # Nil

\* C17: in Ready with no prompt open, Esc with an active search query clears
\* the query and the matches, displays the raw layout with no line
\* highlighted and does not quit; Esc with no active query quits; Esc in
\* the search prompt or the link prompt closes that prompt and does not
\* quit.
C17_EscClearsThenQuits ==
    [][/\ (KeyEvent(ev', "normal", {"esc"}) /\ Ready(m) /\ m.searchQuery # <<>>) =>
             /\ ~quit'
             /\ m'.searchQuery = <<>>
             /\ m'.searchMatches = <<>>
             /\ m'.viewport.hl = {}
             /\ Shown(m'.viewport) = m.rawContent
             /\ ~m'.searching /\ ~m'.openingLink
       /\ (KeyEvent(ev', "normal", {"esc"}) /\ Ready(m) /\ m.searchQuery = <<>>) =>
             quit' /\ m' = m
       /\ (KeyEvent(ev', "search", {"esc"}) /\ Ready(m)) =>
             ~quit' /\ ~m'.searching /\ ~m'.openingLink
       /\ (KeyEvent(ev', "link", {"esc"}) /\ Ready(m)) =>
             /\ ~quit'
             /\ m' = [m EXCEPT !.openingLink = FALSE, !.linkInput = <<>>]
      ]_vars

\* Esc was pressed in normal mode while a query with matches was active:
\* the controller has not quit and displays the raw layout
C17_Witness ==
    /\ KeyEvent(ev, "normal", {"esc"})
    /\ ev.active
    /\ ~quit
    /\ m.article = Article1
    /\ m.rawContent # EmptyText
    /\ m.searchQuery = <<>>
    /\ m.searchMatches = <<>>
    /\ Shown(m.viewport) = m.rawContent

\* the Heading blocks of an Article, in the order of its Content
HeadingBlocks(article) ==
    SelectSeq(article.Content, LAMBDA b : b.Type = BlockHeading)

\* C18: every call of RenderArticle returns one heading offset for each
\* Heading block of the Article, in the order of the blocks: the offsets
\* are strictly increasing, each is a line index of the returned text, and
\* the k-th offset is where the k-th Heading block was written (its blank
\* line, followed by the line with its text).
C18_HeadingOffsets ==
    \A c \in 1..Len(Calls) :
        LET hl == Calls[c].HeadingLines
            content == Calls[c].content
            hs == HeadingBlocks(lay.article)
        IN  /\ Len(hl) = Len(hs)
            /\ \A k \in 1..Len(hl) :
                  /\ hl[k] >= 0 /\ hl[k] < Len(content)
                  /\ k > 1 => hl[k - 1] < hl[k]
                  /\ content[hl[k] + 1] = <<>>
                  /\ hl[k] + 2 <= Len(content)
                  /\ content[hl[k] + 2] = renderHeading(hs[k])[2]

\* RenderArticle was called on a Renderer used before, for an Article with
\* a paragraph that wraps followed by a heading, and returned one offset
C18_Witness ==
    /\ Len(Calls) = 2
    /\ Calls[2].before # <<>>
    /\ Len(lay.article.Content) = 2
    /\ lay.article.Content[1].Type = BlockParagraph
    /\ lay.article.Content[2].Type = BlockHeading
    /\ lay.r.width = 12
    /\ Len(Calls[2].HeadingLines) = 1
    /\ Calls[2].HeadingLines[1] > 0

\* the positions in Content of the Heading blocks of an Article, increasing
HeadingPositions(article) ==
    SortedSeq({i \in 1..Len(article.Content) :
                  article.Content[i].Type = BlockHeading})

\* a block was written to the main stream before the block at position p
RenderedBefore(article, p) ==
    \E j \in 1..(p - 1) : article.Content[j].Type # BlockImage

\* the line above the line with 0-based index off is the divider
DividerAbove(content, off, width) ==
    off >= 1 /\ content[off] = Divider(width)

\* C19 as stated: the divider is written before a Heading block exactly
\* when some block was written to the main stream before it; Image blocks,
\* which are kept out of the main stream, do not count.
C19_DividerExceptFirstRendered ==
    \A c \in 1..Len(Calls) :
        LET hp == HeadingPositions(lay.article)
        IN  Len(Calls[c].HeadingLines) = Len(hp) =>
              \A k \in 1..Len(hp) :
                  DividerAbove(Calls[c].content, Calls[c].HeadingLines[k],
                               lay.r.width)
                      <=> RenderedBefore(lay.article, hp[k])

\* the loop of RenderArticle writes a divider for the Heading at position p
WritesDivider(p) == p > 1

\* C20 as stated: the offset recorded for a Heading is the line count of the
\* buffer before the heading's divider is appended, so for a Heading with a
\* divider it is the index of the divider line.
C20_OffsetBeforeDivider ==
    \A c \in 1..Len(Calls) :
        LET hp == HeadingPositions(lay.article)
            hl == Calls[c].HeadingLines
        IN  \A k \in 1..Len(hl) :
                WritesDivider(hp[k]) =>
                    Calls[c].content[hl[k] + 1] = Divider(lay.r.width)

\* C20 amended: the offset recorded for a Heading is the line count of the
\* buffer after the heading's divider (when there is one) was appended and
\* before the heading's text is: it is the index of the empty line that
\* opens the heading, the divider is the line above it and the line with
\* the heading's text the line below it.
C20_OffsetAfterDivider ==
    \A c \in 1..Len(Calls) :
        LET hp == HeadingPositions(lay.article)
            hl == Calls[c].HeadingLines
            content == Calls[c].content
        IN  \A k \in 1..Len(hl) :
                /\ content[hl[k] + 1] = <<>>
                /\ content[hl[k] + 2]
                      = renderHeading(lay.article.Content[hp[k]])[2]
                /\ WritesDivider(hp[k]) =>
                      DividerAbove(content, hl[k], lay.r.width)
                /\ ~WritesDivider(hp[k]) =>
                      hl[k] = Len(renderTitle(lay.article, lay.r.width)) + 1

\* RenderArticle was called for an Article with two headings: the second
\* one has a divider, and its offset is the line below the divider
C20_Witness ==
    /\ Len(Calls) >= 1
    /\ Len(lay.article.Content) = 2
    /\ lay.article.Content[1].Type = BlockHeading
    /\ lay.article.Content[2].Type = BlockHeading
    /\ Len(Calls[1].HeadingLines) = 2
    /\ Calls[1].content[Calls[1].HeadingLines[2]] = Divider(lay.r.width)

\* renderTable has returned a table
TableRendered == lay.pc = "rendered" /\ ~lay.result.empty

\* C21 as stated: when the natural total width of a table exceeds the
\* available width (width - 6), every column width renderTable ends up
\* with is at least 1 and the total width of the table fits in the
\* available width.
C21_ShrunkTableFits ==
    (TableRendered /\ TotalWidth(lay.natural) > MaxTableWidth(lay.width)) =>
        /\ \A j \in 1..Len(lay.result.colWidths) : lay.result.colWidths[j] >= 1
        /\ TotalWidth(lay.result.colWidths) <= MaxTableWidth(lay.width)

\* C22 as stated: renderTable does not panic, and every row it writes has
\* numCols cells, each exactly as many bytes long as its column is wide: a
\* missing cell is all padding, a cell longer than the column is cut and
\* ends in the ellipsis.
C22_RowsFillColumns ==
    lay.pc = "rendered" =>
        /\ ~lay.result.panic
        /\ \A i \in 1..Len(lay.result.rows) :
              /\ Len(lay.result.rows[i]) = NumCols(lay.block.Rows)
              /\ \A j \in 1..Len(lay.result.rows[i]) :
                    Len(lay.result.rows[i][j]) = lay.result.colWidths[j]

\* the article and the terminal width are both known
BothDelivered(mm) == mm.article # Nil /\ mm.width > 0

\* C23: the articleMsg and the first WindowSizeMsg may come in either
\* order; the step that delivers the second of them builds one Renderer of
\* width min(width, 90), lays the Article out with it and shows the layout
\* in the viewport, and the controller is then not loading and ready; no
\* step builds a Renderer while the Article is absent or the width is 0.
C23_EitherOrderRenders ==
    [][/\ (~BothDelivered(m) /\ BothDelivered(m')) =>
             /\ ev'.kind \in {"article", "size"}
             /\ ~m'.loading /\ m'.ready
             /\ main'.renderers = <<Min(m'.width, 90)>>
             /\ m'.rawContent = Layout(m'.article, Min(m'.width, 90)).content
             /\ m'.contentLines = m'.rawContent
             /\ Shown(m'.viewport) = m'.rawContent
       /\ main'.renderers # <<>> =>
             (~main'.pipeMode => BothDelivered(m'))
       /\ (~BothDelivered(m') /\ ~main'.pipeMode) => m'.rawContent = EmptyText
      ]_vars

\* the window size came first and the articleMsg second: the Article was
\* laid out by the articleMsg at width 90 and is shown
C23_Witness ==
    /\ ev.kind = "article"
    /\ m.width = 120
    /\ m.article = Article1
    /\ main.renderers = <<90>>
    /\ m.rawContent # EmptyText
    /\ Shown(m.viewport) = m.rawContent

\* an Article with at least one Link is held and the controller is not
\* loading
HoldsLinks(mm) ==
    /\ ~mm.loading
    /\ mm.article # Nil
    /\ Len(mm.article.Links) > 0

\* C24: the link prompt is open only while an Article with at least one
\* Link is held and the controller is not loading; the key "o" pressed in
\* normal mode without such an Article opens no prompt, and with one it
\* opens the link prompt with an empty input.
C24_LinkPromptNeedsLinks ==
    [][/\ m'.openingLink => HoldsLinks(m')
       /\ (KeyEvent(ev', "normal", {"o"}) /\ ~HoldsLinks(m)) =>
             /\ ~m'.openingLink /\ ~m'.searching
             /\ ~quit' /\ launched' = <<>>
       /\ (KeyEvent(ev', "normal", {"o"}) /\ HoldsLinks(m)) =>
             m' = [m EXCEPT !.openingLink = TRUE, !.linkInput = <<>>]
      ]_vars

\* "o" was pressed in normal mode and the link prompt is open on an
\* Article with a Link
C24_Witness ==
    /\ KeyEvent(ev, "normal", {"o"})
    /\ m.openingLink
    /\ m.article = Article1
    /\ m.linkInput = <<>>

\* C25: the search prompt is open only when the controller is not loading,
\* and a key pressed while loading changes nothing of the Model (search,
\* link prompt, headings, content, viewport): it either quits ("q",
\* "ctrl+c", "esc") or has no effect.
C25_LoadingIgnoresKeys ==
    [][/\ m'.searching => ~m'.loading
       /\ (ev'.kind = "key" /\ m.loading) =>
             /\ m' = m
             /\ launched' = <<>>
             /\ quit' <=> ev'.key \in {"q", "ctrl+c", "esc"}
      ]_vars

\* "/" was pressed while loading, after the terminal had reported its
\* size: no prompt is open
C25_Witness ==
    /\ KeyEvent(ev, "normal", {"/"})
    /\ m.loading
    /\ m.ready
    /\ ~m.searching
    /\ ~quit

RECURSIVE AnchorsBelow(_)
\* the number of linking anchors at or below a node
AnchorsBelow(n) ==
    (IF LinkingAnchor(n) THEN 1 ELSE 0)
    + SumSeq([i \in 1..Len(n.kids) |-> AnchorsBelow(n.kids[i])])

\* the number of linking anchors of a page
PageAnchors(nodes) == SumSeq([i \in 1..Len(nodes) |-> AnchorsBelow(nodes[i])])

\* the texts of the blocks of an Article: Text, and every item of a list
BlockTexts(article) ==
    UNION {IF article.Content[i].Type = BlockList
           THEN {article.Content[i].Items[k] : k \in 1..Len(article.Content[i].Items)}
           ELSE IF article.Content[i].Type \in {BlockHeading, BlockParagraph,
                                                BlockQuote}
           THEN {article.Content[i].Text}
           ELSE {} : i \in 1..Len(article.Content)}

\* the marker "text [N]" of a Link
Marker(link) == link.Text \o <<" ", "[">> \o Itoa(link.Index) \o <<"]">>

\* C26 as stated: every anchor with an href other than "" and "#" inside
\* an extracted block (heading, paragraph, list item, quote) yields exactly
\* one Link, so the Article has as many Links as the page has such
\* anchors, and the text of some block holds the marker of every Link.
C26_EveryAnchorOneLink ==
    Extracted =>
        /\ Len(ext.article.Links) = PageAnchors(ext.doc.Content)
        /\ \A i \in 1..Len(ext.article.Links) :
              \E t \in BlockTexts(ext.article) :
                  Contains(t, Marker(ext.article.Links[i]))

\* C27 as stated: whenever the match set is not empty the current-match
\* pointer is within it, 0 <= searchIdx < len(searchMatches), so the footer
\* never shows a current match beyond the total.
C27_PointerInRange ==
    Len(m.searchMatches) > 0 =>
        (m.searchIdx >= 0 /\ m.searchIdx < Len(m.searchMatches))

\* C28: the search prompt and the link prompt are never open together, and
\* a key other than Enter and Esc pressed while a prompt is open goes to
\* that prompt's input only: a rune is appended to it, any other key
\* leaves it as it is, and nothing else of the controller changes.
C28_PromptsExclusive ==
    [][/\ ~(m'.searching /\ m'.openingLink)
       /\ (ev'.kind = "key" /\ ev'.mode = "search"
             /\ ev'.key \notin {"enter", "esc"}) =>
             /\ m' = [m EXCEPT !.searchInput =
                        IF ev'.key \in Runes THEN Append(m.searchInput, ev'.key)
                        ELSE m.searchInput]
             /\ m'.searching
             /\ ~quit' /\ launched' = <<>>
       /\ (ev'.kind = "key" /\ ev'.mode = "link"
             /\ ev'.key \notin {"enter", "esc"}) =>
             /\ m' = [m EXCEPT !.linkInput =
                        IF ev'.key \in Runes THEN Append(m.linkInput, ev'.key)
                        ELSE m.linkInput]
             /\ m'.openingLink
             /\ ~quit' /\ launched' = <<>>
      ]_vars

\* "q" was typed into the link prompt: it is in the input, the prompt is
\* open and the controller has not quit
C28_Witness ==
    /\ KeyEvent(ev, "link", {"q"})
    /\ m.openingLink
    /\ ~m.searching
    /\ m.linkInput = <<"q">>
    /\ ~quit

\* C29 as stated: RenderArticle returns, without a runtime panic, for every
\* Article and every width its callers pass, the widths 0 to 6 included.
C29_NeverPanics ==
    lay.pc \in {"new", "panicked", "returned"} => ~lay.panic

\* C30 as stated: with two or more headings in a text longer than the
\* window, every press of "]" selects a heading other than the one the
\* viewport is at (the next one, or the first after the last) and the
\* viewport moves to it, so repeated presses cycle through the headings
\* and never stay on one heading.
C30_ForwardJumpCycles ==
    [][(/\ KeyEvent(ev', "normal", {"]"})
        /\ Len(m.headingLines) >= 2
        /\ maxYOffset(m.viewport) > 0) =>
            m'.viewport.YOffset # m.viewport.YOffset
      ]_vars

====
